---- MODULE Spec2Model ----
(***************************************************************************)
(* Model of the canusb-rs driver: the ASCII wire codec of CAN frames       *)
(* (src/src/frame.rs), the connection handshake and the channel            *)
(* operations over a byte-stream transport (src/src/canusb/mod.rs).        *)
(*                                                                         *)
(* Bytes are the integers 0..255; a byte run is a sequence of bytes.       *)
(***************************************************************************)
EXTENDS Integers, Sequences, FiniteSets, TLC

VARIABLES
    pc,           \* where the caller is: builder, a handshake step, live, send_stalled, panicked, released
    cfg,          \* the LawicelCanUsbBuilder fields consumed by open()
    stream,       \* every byte the adapter delivers during the session, in order
    pos,          \* number of bytes of stream the host has consumed so far
    log,          \* the write and block-read calls made on the transport, in order
    open_result,  \* what open() returned: "none" while it has not returned
    frame,        \* the frame handed to the latest send()
    req,          \* the builder calls that produced frame
    buf,          \* the bytes stored through the cursor by the latest read loop
    attempts,     \* read_exact calls made by the latest read loop
    results,      \* what the operations of the channel returned, in order
    cin,          \* codec check: the input (builder calls or byte run)
    cout          \* codec check: what encode / decode produced for cin

vars == <<pc, cfg, stream, pos, log, open_result, frame, req, buf, attempts,
          results, cin, cout>>

sessionVars == <<pc, cfg, stream, pos, log, open_result, frame, req, buf,
                 attempts, results>>

codecVars == <<cin, cout>>

(***************************************************************************)
(* Bytes                                                                   *)
(***************************************************************************)
Asc == [CR |-> 13, BEL |-> 7, NUL |-> 0, plus |-> 43, minus |-> 45, zero |-> 48,
        C |-> 67, F |-> 70, N |-> 78, O |-> 79, R |-> 82, S |-> 83,
        T |-> 84, Z |-> 90, r |-> 114, s |-> 115, t |-> 116, x |-> 120,
        z |-> 122, bad |-> 255]

STANDARD_MASK == 2047

EXTENDED_MASK == 536870911

\* v & mask for a mask of the form 2^k - 1 below 2^29
BitAnd(v, mask) == v % (mask + 1)

RECURSIVE Repeat(_, _)
Repeat(b, n) == IF n <= 0 THEN <<>> ELSE <<b>> \o Repeat(b, n - 1)

\* the first n elements of s, all of s when it is shorter
Take(s, n) == IF Len(s) <= n THEN s ELSE SubSeq(s, 1, n)

\* s without its first n elements
Drop(s, n) == IF Len(s) <= n THEN <<>> ELSE SubSeq(s, n + 1, Len(s))

IsTerminator(b) == b = Asc.CR \/ b = Asc.BEL

(***************************************************************************)
(* Formatting: {:0wX}                                                      *)
(***************************************************************************)
\* a variant of UpperHexDigit for the lowercase format {:x}
Mut_UpperHexDigit(n) == IF n < 10 THEN 48 + n ELSE 87 + n

UpperHexDigit(n) == IF n < 10 THEN 48 + n ELSE 55 + n

RECURSIVE UpperHexDigits(_)
UpperHexDigits(v) ==
    IF v < 16 THEN <<UpperHexDigit(v)>>
    ELSE UpperHexDigits(v \div 16) \o <<UpperHexDigit(v % 16)>>

\* "{:0wX}": uppercase hex, zero padded to at least w digits, never truncated
FormatHex(v, w) ==
    LET d == UpperHexDigits(v)
    IN  Repeat(Asc.zero, w - Len(d)) \o d

(***************************************************************************)
(* Parsing: std::str::from_utf8 and uN::from_str_radix(_, 16)              *)
(***************************************************************************)
IsCont(b) == b >= 128 /\ b <= 191

RECURSIVE Utf8Valid(_)
Utf8Valid(s) ==
    IF s = <<>> THEN TRUE
    ELSE LET b == s[1]
             n == Len(s)
         IN  IF b < 128 THEN Utf8Valid(Tail(s))
             ELSE IF b >= 194 /\ b <= 223
                  THEN n >= 2 /\ IsCont(s[2]) /\ Utf8Valid(SubSeq(s, 3, n))
             ELSE IF b >= 224 /\ b <= 239
                  THEN /\ n >= 3
                       /\ IsCont(s[2]) /\ IsCont(s[3])
                       /\ (b = 224 => s[2] >= 160)
                       /\ (b = 237 => s[2] <= 159)
                       /\ Utf8Valid(SubSeq(s, 4, n))
             ELSE IF b >= 240 /\ b <= 244
                  THEN /\ n >= 4
                       /\ IsCont(s[2]) /\ IsCont(s[3]) /\ IsCont(s[4])
                       /\ (b = 240 => s[2] >= 144)
                       /\ (b = 244 => s[2] <= 143)
                       /\ Utf8Valid(SubSeq(s, 5, n))
             ELSE FALSE

\* char::to_digit(16): -1 when the byte is no hex digit
HexValue(b) ==
    IF b >= 48 /\ b <= 57 THEN b - 48
    ELSE IF b >= 65 /\ b <= 70 THEN b - 55
    ELSE IF b >= 97 /\ b <= 102 THEN b - 87
    ELSE -1

IsAsciiHexDigit(b) == HexValue(b) >= 0

\* A u32 is kept as its top 3 bits (hi) and its low 29 bits (lo), so that
\* every 32-bit value is represented exactly; narrower values have hi = 0.
U32(hi, lo) == [hi |-> hi, lo |-> lo]

\* acc * 16 + digit in 32 bits; ok is FALSE on a digit that is none or on overflow
RECURSIVE DigitsValue(_, _)
DigitsValue(s, acc) ==
    IF s = <<>> \/ ~acc.ok THEN acc
    ELSE IF HexValue(s[1]) < 0 THEN [acc EXCEPT !.ok = FALSE]
    ELSE LET hi == (acc.hi * 16) + (acc.lo \div 33554432)
             lo == ((acc.lo % 33554432) * 16) + HexValue(s[1])
         IN  DigitsValue(Tail(s), [hi |-> hi % 8, lo |-> lo, ok |-> hi < 8])

\* from_str_radix(s, 16) of an unsigned type of the given width in bits.
\* A leading '+' is accepted when digits follow it; '-' never is.
FromStrRadix16(s, bits) ==
    IF s = <<>> THEN [ok |-> FALSE, v |-> U32(0, 0)]
    ELSE IF Len(s) = 1 /\ (s[1] = Asc.plus \/ s[1] = Asc.minus)
         THEN [ok |-> FALSE, v |-> U32(0, 0)]
    ELSE LET digits == IF s[1] = Asc.plus THEN Tail(s) ELSE s
             r == DigitsValue(digits, [hi |-> 0, lo |-> 0, ok |-> TRUE])
             fits == bits = 32 \/ (r.hi = 0 /\ r.lo < 2 ^ bits)
         IN  IF r.ok /\ fits THEN [ok |-> TRUE, v |-> U32(r.hi, r.lo)]
             ELSE [ok |-> FALSE, v |-> U32(0, 0)]

\* value.get(from..to) is Some: the 0-based range from..to-1 lies in value
RangeOk(value, from, to) == from <= to /\ to <= Len(value)

\* a variant of ParseField that unwraps the from_utf8 result: a field that
\* is not UTF-8 aborts instead of returning Utf8Error
Mut_ParseField(value, from, to, bits) ==
    IF ~RangeOk(value, from, to) THEN [ok |-> FALSE, err |-> "DataError", v |-> 0]
    ELSE LET slice == SubSeq(value, from + 1, to)
             r == FromStrRadix16(slice, bits)
         IN  IF ~Utf8Valid(slice)
             THEN [ok |-> FALSE, err |-> "Panic", v |-> 0]
             ELSE IF ~r.ok
             THEN [ok |-> FALSE, err |-> "IntegerParseError", v |-> 0]
             ELSE [ok |-> TRUE, err |-> "none",
                   v |-> IF bits = 32 THEN r.v ELSE r.v.lo]

\* get a range, check it is UTF-8 and parse it as hex: the value (a u32 for
\* bits = 32, a number otherwise) or the error kind
ParseField(value, from, to, bits) ==
    IF ~RangeOk(value, from, to) THEN [ok |-> FALSE, err |-> "DataError", v |-> 0]
    ELSE LET slice == SubSeq(value, from + 1, to)
             r == FromStrRadix16(slice, bits)
         IN  IF ~Utf8Valid(slice)
             THEN [ok |-> FALSE, err |-> "Utf8Error", v |-> 0]
             ELSE IF ~r.ok
             THEN [ok |-> FALSE, err |-> "IntegerParseError", v |-> 0]
             ELSE [ok |-> TRUE, err |-> "none",
                   v |-> IF bits = 32 THEN r.v ELSE r.v.lo]

(***************************************************************************)
(* CanFrame and CanFrameBuilder (frame.rs)                                 *)
(***************************************************************************)
ZeroData == Repeat(0, 8)

CanFrameBuilder_new ==
    [can_id |-> 0, identifier_format |-> "Standard", frame_type |-> "DataFrame",
     dlc |-> 0, data |-> ZeroData, timestamp |-> 0]

\* a variant of Builder_can_id that applies the standard mask in both formats
Mut_Builder_can_id(b, can_id, format) ==
    [b EXCEPT !.can_id = BitAnd(can_id.lo, STANDARD_MASK),
              !.identifier_format = format]

Builder_can_id(b, can_id, format) ==
    [b EXCEPT !.can_id = IF format = "Standard" THEN BitAnd(can_id.lo, STANDARD_MASK)
                         ELSE BitAnd(can_id.lo, EXTENDED_MASK),
              !.identifier_format = format]

\* can_id is a u32: masking keeps bits of lo only
\* (Builder_can_id above); the builder's frame_type field is compared but never assigned
Builder_frame_type(b, frame_type) ==
    IF b.frame_type # frame_type /\ frame_type = "RemoteFrame"
    THEN [b EXCEPT !.dlc = 0, !.data = ZeroData]
    ELSE b

Builder_dlc(b, dlc) == [b EXCEPT !.dlc = dlc]

Builder_data(b, data) ==
    LET len == IF Len(data) > 8 THEN 8 ELSE Len(data)
    IN  [b EXCEPT !.data = [i \in 1..8 |-> IF i <= len THEN data[i] ELSE @[i]]]

Builder_timestamp(b, value) == [b EXCEPT !.timestamp = value]

\* impl From<CanFrameBuilder> for CanFrame
FrameFromBuilder(b) ==
    [can_id |-> b.can_id, identifier_format |-> b.identifier_format,
     frame_type |-> "DataFrame", dlc |-> b.dlc, data |-> b.data,
     timestamp |-> b.timestamp]

Frame_can_id(f) ==
    IF f.identifier_format = "Standard" THEN BitAnd(f.can_id, STANDARD_MASK)
    ELSE BitAnd(f.can_id, EXTENDED_MASK)

is_data_frame(f) == f.frame_type = "DataFrame"

is_remote_frame(f) == f.frame_type = "RemoteFrame"

\* &self.data[..dlc]: defined for dlc <= 8 only (the slice panics beyond)
Frame_data(f) == SubSeq(f.data, 1, f.dlc)

\* impl PartialEq for CanFrame
FrameEq(a, b) ==
    /\ a.identifier_format = b.identifier_format
    /\ a.frame_type = b.frame_type
    /\ Frame_can_id(a) = Frame_can_id(b)
    /\ a.timestamp = b.timestamp
    /\ Frame_data(a) = Frame_data(b)

\* The builder calls of a caller: req is the record of their arguments.
\* can_id, frame_type, dlc, data, timestamp, then into().
BuildFrame(r) ==
    FrameFromBuilder(
        Builder_timestamp(
            Builder_data(
                Builder_dlc(
                    Builder_frame_type(
                        Builder_can_id(CanFrameBuilder_new, r.can_id, r.format),
                        r.frame_type),
                    r.dlc),
                r.data),
            r.timestamp))

(***************************************************************************)
(* Encoding: the first half of LawicelCanUsb::send (canusb/mod.rs)         *)
(***************************************************************************)
SendBufLen == 27

\* write!(cursor, ...) on a cursor over a slice of cap bytes: what fits is
\* stored, and the call fails when something does not fit
CursorWriteAll(cur, bytes, cap) ==
    [buf |-> Take(cur.buf \o bytes, cap),
     ok  |-> cur.ok /\ Len(cur.buf) + Len(bytes) <= cap]

\* a variant of HexPairs that writes the low nibble first
RECURSIVE Mut_HexPairs(_)
Mut_HexPairs(data) ==
    IF data = <<>> THEN <<>>
    ELSE <<UpperHexDigit(Head(data) % 16), UpperHexDigit(Head(data) \div 16)>>
         \o Mut_HexPairs(Tail(data))

RECURSIVE HexPairs(_)
HexPairs(data) ==
    IF data = <<>> THEN <<>> ELSE FormatHex(Head(data), 2) \o HexPairs(Tail(data))

\* a variant of EncodedLen that counts 3 identifier digits in both formats
Mut_EncodedLen(f) == 1 + 3 + 1 + (2 * f.dlc) + 1

\* index = 1 + 3 + 1 + 2 * dlc + 1 (Standard), 1 + 8 + 1 + 2 * dlc + 1 (Extended)
EncodedLen(f) ==
    IF f.identifier_format = "Standard" THEN 1 + 3 + 1 + (2 * f.dlc) + 1
    ELSE 1 + 8 + 1 + (2 * f.dlc) + 1

\* the marker, identifier and dlc digits written first
EncodeHeader(f) ==
    IF f.identifier_format = "Standard"
    THEN <<Asc.t>> \o FormatHex(Frame_can_id(f), 3) \o FormatHex(f.dlc, 1)
    ELSE <<Asc.T>> \o FormatHex(Frame_can_id(f), 8) \o FormatHex(f.dlc, 1)

\* kind is Ok, FormatError, SizeMismatchError or Panic (dlc > 8: the u8
\* length arithmetic overflows or the data() slice is out of range);
\* bytes is buf[..index], what send() hands to the transport
Encode(f) ==
    IF f.dlc > 8 THEN [kind |-> "Panic", bytes |-> <<>>]
    ELSE LET c0 == [buf |-> <<>>, ok |-> TRUE]
             c1 == CursorWriteAll(c0, EncodeHeader(f), SendBufLen)
             c2 == CursorWriteAll(c1, HexPairs(Frame_data(f)), SendBufLen)
             c3 == CursorWriteAll(c2, <<Asc.CR>>, SendBufLen)
         IN  IF ~c3.ok THEN [kind |-> "FormatError", bytes |-> <<>>]
             ELSE IF EncodedLen(f) # Len(c3.buf)
             THEN [kind |-> "SizeMismatchError", bytes |-> <<>>]
             ELSE [kind |-> "Ok", bytes |-> c3.buf]

(***************************************************************************)
(* Decoding: impl TryFrom<&[u8]> for CanFrame (frame.rs)                   *)
(***************************************************************************)
StandardLengths == {6, 8, 10, 12, 14, 16, 18, 20, 22, 24, 26}

ExtendedLengths == {11, 13, 15, 17, 19, 21, 23, 25, 27, 29, 31}

\* The has_timestamp match.  For a length: the dlc a data frame must carry
\* to have no timestamp (plain) or a timestamp (stamped), -1 when the length
\* has no such reading; and what a remote frame of that length is.
LengthTable(len) ==
    CASE len = 6  -> [plain |-> 0,  stamped |-> -1, remote |-> "false"]
      [] len = 8  -> [plain |-> 1,  stamped |-> -1, remote |-> "InvalidSize"]
      [] len = 10 -> [plain |-> 2,  stamped |-> 0,  remote |-> "true"]
      [] len = 12 -> [plain |-> 3,  stamped |-> 1,  remote |-> "InvalidSize"]
      [] len = 14 -> [plain |-> 4,  stamped |-> 2,  remote |-> "InvalidSize"]
      [] len = 16 -> [plain |-> 5,  stamped |-> 3,  remote |-> "InvalidSize"]
      [] len = 18 -> [plain |-> 6,  stamped |-> 4,  remote |-> "InvalidSize"]
      [] len = 20 -> [plain |-> 7,  stamped |-> 5,  remote |-> "InvalidSize"]
      [] len = 22 -> [plain |-> 8,  stamped |-> 6,  remote |-> "InvalidSize"]
      [] len = 24 -> [plain |-> -1, stamped |-> 7,  remote |-> "InvalidSize"]
      [] len = 26 -> [plain |-> -1, stamped |-> 8,  remote |-> "InvalidSize"]
      [] len = 11 -> [plain |-> 0,  stamped |-> -1, remote |-> "false"]
      [] len = 13 -> [plain |-> 1,  stamped |-> -1, remote |-> "InvalidSize"]
      [] len = 15 -> [plain |-> 2,  stamped |-> 0,  remote |-> "true"]
      [] len = 17 -> [plain |-> 3,  stamped |-> 1,  remote |-> "InvalidSize"]
      [] len = 19 -> [plain |-> 4,  stamped |-> 2,  remote |-> "InvalidSize"]
      [] len = 21 -> [plain |-> 5,  stamped |-> 3,  remote |-> "InvalidSize"]
      [] len = 23 -> [plain |-> 6,  stamped |-> 4,  remote |-> "InvalidSize"]
      [] len = 25 -> [plain |-> 7,  stamped |-> 5,  remote |-> "InvalidSize"]
      [] len = 27 -> [plain |-> 8,  stamped |-> 6,  remote |-> "InvalidSize"]
      [] len = 29 -> [plain |-> -1, stamped |-> 7,  remote |-> "InvalidSize"]
      [] len = 31 -> [plain |-> -1, stamped |-> 8,  remote |-> "InvalidSize"]
      [] OTHER    -> [plain |-> -1, stamped |-> -1, remote |-> "InvalidSize"]

\* a variant of HasTimestamp that reads a timestamp only where the length
\* has no reading without one
Mut_HasTimestamp(len, frame_type, dlc) ==
    LET row == LengthTable(len)
    IN  IF len \notin StandardLengths \cup ExtendedLengths THEN "InvalidSize"
        ELSE IF frame_type = "RemoteFrame" THEN row.remote
        ELSE IF dlc = row.plain THEN "false"
        ELSE IF row.plain = -1 /\ dlc = row.stamped THEN "true"
        ELSE "DlcError"

\* "true", "false", or the error kind the match returns
HasTimestamp(len, frame_type, dlc) ==
    LET row == LengthTable(len)
    IN  IF len \notin StandardLengths \cup ExtendedLengths THEN "InvalidSize"
        ELSE IF frame_type = "RemoteFrame" THEN row.remote
        ELSE IF dlc = row.stamped THEN "true"
        ELSE IF dlc = row.plain THEN "false"
        ELSE "DlcError"

ParseErr(kind) == [ok |-> FALSE, err |-> kind, frame |-> CanFrameBuilder_new]

\* the payload bytes: the first field that fails decides the error
RECURSIVE ParseData(_, _, _, _)
ParseData(value, base, i, dlc) ==
    IF i >= dlc THEN [ok |-> TRUE, err |-> "none", data |-> <<>>]
    ELSE LET f == ParseField(value, base + (2 * i), base + (2 * i) + 2, 8)
         IN  IF ~f.ok THEN [ok |-> FALSE, err |-> f.err, data |-> <<>>]
             ELSE LET rest == ParseData(value, base, i + 1, dlc)
                  IN  IF ~rest.ok THEN rest
                      ELSE [ok |-> TRUE, err |-> "none", data |-> <<f.v>> \o rest.data]

TimestampLimit == 60000

\* a variant of EndsWithCR that takes either terminator
Mut_EndsWithCR(value) == IsTerminator(value[Len(value)])

\* the carriage return check: value.get(value.len() - 1) is CR
EndsWithCR(value) == value[Len(value)] = Asc.CR

\* a variant of TimestampInRange that admits 60000 itself
Mut_TimestampInRange(timestamp) == timestamp <= TimestampLimit

\* the timestamp check: timestamp >= 60000 is rejected
TimestampInRange(timestamp) == timestamp < TimestampLimit

Decode(value) ==
    IF Len(value) \notin StandardLengths \cup ExtendedLengths THEN ParseErr("InvalidSize")
    ELSE
    LET format == IF Len(value) \in StandardLengths THEN "Standard" ELSE "Extended"
        dataMark == IF format = "Standard" THEN Asc.t ELSE Asc.T
        remoteMark == IF format = "Standard" THEN Asc.r ELSE Asc.R
        idLen == IF format = "Standard" THEN 3 ELSE 8
        base == 1 + idLen + 1
    IN
    IF value[1] # dataMark /\ value[1] # remoteMark THEN ParseErr("MessageStartError")
    ELSE
    LET frame_type == IF value[1] = dataMark THEN "DataFrame" ELSE "RemoteFrame"
        id == ParseField(value, 1, 1 + idLen, 32)
        dlc == ParseField(value, 1 + idLen, 1 + idLen + 1, 8)
    IN
    IF ~id.ok THEN ParseErr(id.err)
    ELSE IF ~dlc.ok THEN ParseErr(dlc.err)
    ELSE IF dlc.v > 8 THEN ParseErr("DlcError")
    ELSE
    LET has == HasTimestamp(Len(value), frame_type, dlc.v)
    IN
    IF has \notin {"true", "false"} THEN ParseErr(has)
    ELSE
    LET data == IF frame_type = "DataFrame" THEN ParseData(value, base, 0, dlc.v)
                ELSE [ok |-> TRUE, err |-> "none", data |-> <<>>]
        tsFrom == IF frame_type = "DataFrame" THEN base + (2 * dlc.v) ELSE base
        ts == IF has = "true" THEN ParseField(value, tsFrom, tsFrom + 4, 16)
              ELSE [ok |-> TRUE, err |-> "none", v |-> 0]
    IN
    IF ~data.ok THEN ParseErr(data.err)
    ELSE IF ~ts.ok THEN ParseErr(ts.err)
    ELSE IF ~TimestampInRange(ts.v) THEN ParseErr("TimestampError")
    ELSE IF ~EndsWithCR(value) THEN ParseErr("MessageTerminationError")
    ELSE [ok |-> TRUE, err |-> "none",
          frame |-> BuildFrame([can_id |-> id.v, format |-> format,
                                frame_type |-> frame_type, dlc |-> dlc.v,
                                data |-> data.data \o Repeat(0, 8 - Len(data.data)),
                                timestamp |-> ts.v])]

\* The operations of try_from that can abort: value[0], value.len() - 1,
\* buf[i] and the u8 arithmetic of the payload and timestamp ranges.  TRUE
\* when one of those that the decoding of value executes is out of range.
DecodePanics(value) ==
    LET len == Len(value)
        idLen == IF len \in StandardLengths THEN 3 ELSE 8
        base == 1 + idLen + 1
        marked == value[1] \in (IF len \in StandardLengths THEN {Asc.t, Asc.r}
                                ELSE {Asc.T, Asc.R})
        isData == value[1] \in {Asc.t, Asc.T}
        id == ParseField(value, 1, 1 + idLen, 32)
        dlc == ParseField(value, 1 + idLen, 1 + idLen + 1, 8)
        has == HasTimestamp(len, IF isData THEN "DataFrame" ELSE "RemoteFrame", dlc.v)
        extracts == marked /\ id.ok /\ dlc.ok /\ dlc.v <= 8 /\ has \in {"true", "false"}
        data == ParseData(value, base, 0, dlc.v)
    IN  IF len \notin StandardLengths \cup ExtendedLengths THEN FALSE
        ELSE \/ len < 1
             \/ /\ extracts
                /\ isData
                /\ \E i \in 0..(dlc.v - 1) : base + (2 * i) + 2 > 255 \/ i >= 8
             \/ /\ extracts
                /\ isData
                /\ data.ok
                /\ has = "true"
                /\ base + (2 * dlc.v) + 4 > 255

(***************************************************************************)
(* The transport: serialport write / read / read_exact                     *)
(*                                                                         *)
(* stream is the script of what the adapter side does during the session:  *)
(* a byte (0..255) arrives, or nothing arrives within the read timeout     *)
(* (Gap), or a block read comes back with Ok(0) (Eof, in the handshake     *)
(* only).  Past its end nothing arrives any more.                          *)
(***************************************************************************)
Gap == 0 - 1

Eof == 0 - 2

MaxWriteFailures == 1

\* the write calls so far that did not take the whole buffer
WriteFailures ==
    Cardinality({i \in DOMAIN log : log[i].op = "write" /\ log[i].n # Len(log[i].bytes)})

\* what write(buf) can return for a buffer of len bytes: Err (-1) or Ok(n),
\* sampled as an error, all but one byte, everything; the writes of a
\* session fail at most MaxWriteFailures times
WriteOutcomes(len) ==
    IF WriteFailures < MaxWriteFailures THEN {-1, len - 1, len} ELSE {len}

\* number of bytes at the front of items, at most cap, before a Gap or Eof
RECURSIVE Available(_, _)
Available(items, cap) ==
    IF cap = 0 \/ items = <<>> \/ Head(items) \in {Gap, Eof} THEN 0
    ELSE 1 + Available(Tail(items), cap - 1)

\* read(buf) with a buffer of cap bytes at position p of the stream:
\* n is -1 for Err (timed out), else the count read; used is what it consumed
BlockRead(p, cap) ==
    LET items == Drop(stream, p)
        n == Available(items, cap)
    IN  IF items = <<>> THEN [n |-> -1, used |-> 0, bytes |-> <<>>]
        ELSE IF Head(items) = Eof THEN [n |-> 0, used |-> 1, bytes |-> <<>>]
        ELSE IF n = 0 THEN [n |-> -1, used |-> 1, bytes |-> <<>>]
        ELSE [n |-> n, used |-> n, bytes |-> Take(items, n)]

WriteCall(bytes, n) == [op |-> "write", bytes |-> bytes, n |-> n]

ReadCall(r) == [op |-> "read", bytes |-> r.bytes, n |-> r.n]

\* the buffer of a block read after the call: zero initialised, filled from
\* the front with what was read
ReadBuf(cap, r) == r.bytes \o Repeat(Asc.NUL, cap - Len(r.bytes))

(***************************************************************************)
(* LawicelCanUsbBuilder::open (canusb/mod.rs)                              *)
(***************************************************************************)
Presets == <<"Bitrate10K", "Bitrate20K", "Bitrate50K", "Bitrate100K",
             "Bitrate125K", "Bitrate250K", "Bitrate500K", "Bitrate800K",
             "Bitrate1M">>

PresetIndex(kind) == CHOOSE i \in 1..Len(Presets) : Presets[i] = kind

\* a variant of BitrateCommand that numbers the presets from '1'
Mut_BitrateCommand(b) ==
    IF b.kind = "Btr"
    THEN <<Asc.s>> \o FormatHex(b.btr0, 2) \o FormatHex(b.btr1, 2) \o <<Asc.CR>>
    ELSE <<Asc.S, Asc.zero + PresetIndex(b.kind), Asc.CR>>

\* the bytes handed to write() for the bitrate
BitrateCommand(b) ==
    IF b.kind = "Btr"
    THEN <<Asc.s>> \o FormatHex(b.btr0, 2) \o FormatHex(b.btr1, 2) \o <<Asc.CR>>
    ELSE <<Asc.S, Asc.zero + (PresetIndex(b.kind) - 1), Asc.CR>>

\* expected_size
BitrateExpectedSize(b) == IF b.kind = "Btr" THEN 6 ELSE 3

\* a variant of TimestampCommand with the two commands exchanged
Mut_TimestampCommand(use_timestamps) ==
    IF use_timestamps THEN <<Asc.Z, Asc.zero, Asc.CR>> ELSE <<Asc.Z, 49, Asc.CR>>

TimestampCommand(use_timestamps) ==
    IF use_timestamps THEN <<Asc.Z, 49, Asc.CR>> ELSE <<Asc.Z, Asc.zero, Asc.CR>>

FlushCommand == <<Asc.CR, Asc.CR, Asc.CR>>

CloseCommand == <<Asc.C, Asc.CR>>

OpenCommand == <<Asc.O, Asc.CR>>

\* a variant of FlushAccepts that only requires the read to succeed
Mut_FlushAccepts(n, rbuf) == n >= 0

\* the response checks of the five steps, on the read's count and buffer
FlushAccepts(n, rbuf) == n = 3 /\ rbuf = <<Asc.CR, Asc.CR, Asc.CR>>

CountAccepts(n, rbuf) == n = 1

\* a variant of BitrateAccepts that takes one byte of any value
Mut_BitrateAccepts(n, rbuf) == n = 1

BitrateAccepts(n, rbuf) == n = 1 /\ rbuf[1] = Asc.CR

\* a variant of OpenAccepts that requires both the count and the byte
Mut_OpenAccepts(n, rbuf) == n = 1 /\ rbuf[1] = Asc.CR

OpenAccepts(n, rbuf) == n >= 0 /\ ~((n # 1) /\ (rbuf[1] # Asc.CR))

\* the response check of the step at which open() is
StepAccepts(at, n, rbuf) ==
    CASE at = "flush"   -> FlushAccepts(n, rbuf)
      [] at = "bitrate" -> BitrateAccepts(n, rbuf)
      [] at = "open"    -> OpenAccepts(n, rbuf)
      [] OTHER          -> CountAccepts(n, rbuf)

\* a variant of OpenFails that starts the handshake again while the
\* configured retries are not used up
Mut_OpenFails(calls) ==
    /\ log' = log \o calls
    /\ IF Cardinality({i \in DOMAIN log : log[i].bytes = FlushCommand
                                            /\ log[i].op = "write"}) <= cfg.retries
       THEN pc' = "flush" /\ open_result' = open_result
       ELSE pc' = "released" /\ open_result' = "LawicelConfigurationError"

\* open() returns Err: the serial port it owns is dropped, no Channel exists
OpenFails(calls) ==
    /\ log' = log \o calls
    /\ open_result' = "LawicelConfigurationError"
    /\ pc' = "released"

\* One step: write the command and check the count written; read into a
\* buffer of cap bytes and check the response; go on or return the error.
HandshakeStep(at, command, expected, cap, next) ==
    /\ pc = at
    /\ \E w \in WriteOutcomes(Len(command)) :
          IF w # expected
          THEN OpenFails(<<WriteCall(command, w)>>) /\ pos' = pos
          ELSE LET r == BlockRead(pos, cap)
               IN  /\ pos' = pos + r.used
                   /\ IF StepAccepts(at, r.n, ReadBuf(cap, r))
                      THEN /\ log' = log \o <<WriteCall(command, w), ReadCall(r)>>
                           /\ pc' = next
                           /\ open_result' = IF next = "live" THEN "Ok"
                                             ELSE open_result
                      ELSE OpenFails(<<WriteCall(command, w), ReadCall(r)>>)
    /\ UNCHANGED <<cfg, stream, frame, req, buf, attempts, results, codecVars>>

\* serialport::new(..).open()
OpenPort ==
    /\ pc = "builder"
    /\ \E opened \in BOOLEAN :
          IF opened THEN pc' = "flush" /\ open_result' = open_result
          ELSE pc' = "no_port" /\ open_result' = "SerialPortOpenError"
    /\ UNCHANGED <<cfg, stream, pos, log, frame, req, buf, attempts, results,
                   codecVars>>

StepFlush == HandshakeStep("flush", FlushCommand, 3, 3, "close")

StepClose == HandshakeStep("close", CloseCommand, 2, 1, "timestamp")

StepTimestamp ==
    HandshakeStep("timestamp", TimestampCommand(cfg.use_timestamps), 3, 1, "bitrate")

StepBitrate ==
    HandshakeStep("bitrate", BitrateCommand(cfg.bitrate),
                  BitrateExpectedSize(cfg.bitrate), 1, "open")

StepOpen == HandshakeStep("open", OpenCommand, 2, 1, "live")

(***************************************************************************)
(* LawicelCanUsb: recv, send, status, serial_number, close / Drop          *)
(***************************************************************************)
MaxOps == 3

RecvBufLen == 31

NoResult ==
    [op |-> "none", kind |-> "none", err |-> "none", frame |-> CanFrameBuilder_new,
     status |-> 0, serial |-> <<>>, from |-> 0, to |-> 0]

\* what an operation returned, and the span of the stream it consumed
Result(op, kind, to) == [NoResult EXCEPT !.op = op, !.kind = kind, !.from = pos, !.to = to]

\* what send(f) returned
Sent(f, kind, to) == [Result("send", kind, to) EXCEPT !.frame = f]

\* a variant of RecvLoop with the inclusive range 0..=(3 * size)
RECURSIVE Mut_RecvLoopBound(_, _, _)
Mut_RecvLoopBound(p, stored, n) ==
    IF n = (3 * RecvBufLen) + 1 THEN [pos |-> p, buf |-> stored, attempts |-> n, end |-> "exhausted"]
    ELSE IF p >= Len(stream) THEN Mut_RecvLoopBound(p, stored, n + 1)
    ELSE IF stream[p + 1] = Gap THEN Mut_RecvLoopBound(p + 1, stored, n + 1)
    ELSE IF Len(stored) >= RecvBufLen
         THEN [pos |-> p + 1, buf |-> stored, attempts |-> n + 1, end |-> "BufferError"]
    ELSE IF IsTerminator(stream[p + 1])
         THEN [pos |-> p + 1, buf |-> Append(stored, stream[p + 1]),
               attempts |-> n + 1, end |-> "terminator"]
    ELSE Mut_RecvLoopBound(p + 1, Append(stored, stream[p + 1]), n + 1)

\* a variant of RecvLoop whose buffer holds one byte less
RECURSIVE Mut_RecvLoopFull(_, _, _)
Mut_RecvLoopFull(p, stored, n) ==
    IF n = 3 * RecvBufLen THEN [pos |-> p, buf |-> stored, attempts |-> n, end |-> "exhausted"]
    ELSE IF p >= Len(stream) THEN Mut_RecvLoopFull(p, stored, n + 1)
    ELSE IF stream[p + 1] = Gap THEN Mut_RecvLoopFull(p + 1, stored, n + 1)
    ELSE IF Len(stored) >= RecvBufLen - 1
         THEN [pos |-> p + 1, buf |-> stored, attempts |-> n + 1, end |-> "BufferError"]
    ELSE IF IsTerminator(stream[p + 1])
         THEN [pos |-> p + 1, buf |-> Append(stored, stream[p + 1]),
               attempts |-> n + 1, end |-> "terminator"]
    ELSE Mut_RecvLoopFull(p + 1, Append(stored, stream[p + 1]), n + 1)

\* a variant of RecvLoop that ends on CR only
RECURSIVE Mut_RecvLoop(_, _, _)
Mut_RecvLoop(p, stored, n) ==
    IF n = 3 * RecvBufLen THEN [pos |-> p, buf |-> stored, attempts |-> n, end |-> "exhausted"]
    ELSE IF p >= Len(stream) THEN Mut_RecvLoop(p, stored, n + 1)
    ELSE IF stream[p + 1] = Gap THEN Mut_RecvLoop(p + 1, stored, n + 1)
    ELSE IF Len(stored) >= RecvBufLen
         THEN [pos |-> p + 1, buf |-> stored, attempts |-> n + 1, end |-> "BufferError"]
    ELSE IF stream[p + 1] = Asc.CR
         THEN [pos |-> p + 1, buf |-> Append(stored, stream[p + 1]),
               attempts |-> n + 1, end |-> "terminator"]
    ELSE Mut_RecvLoop(p + 1, Append(stored, stream[p + 1]), n + 1)

\* The read loop of recv from position p with the bytes stored so far:
\* for _ in 0..(3 * size), one read_exact each.
RECURSIVE RecvLoop(_, _, _)
RecvLoop(p, stored, n) ==
    IF n = 3 * RecvBufLen THEN [pos |-> p, buf |-> stored, attempts |-> n, end |-> "exhausted"]
    ELSE IF p >= Len(stream) THEN RecvLoop(p, stored, n + 1)
    ELSE IF stream[p + 1] = Gap THEN RecvLoop(p + 1, stored, n + 1)
    ELSE IF Len(stored) >= RecvBufLen
         THEN [pos |-> p + 1, buf |-> stored, attempts |-> n + 1, end |-> "BufferError"]
    ELSE IF IsTerminator(stream[p + 1])
         THEN [pos |-> p + 1, buf |-> Append(stored, stream[p + 1]),
               attempts |-> n + 1, end |-> "terminator"]
    ELSE RecvLoop(p + 1, Append(stored, stream[p + 1]), n + 1)

\* a variant of Recv that hands decode the stored bytes without the last one
Mut_Recv ==
    /\ pc = "live"
    /\ Len(results) < MaxOps
    /\ LET l == RecvLoop(pos, <<>>, 0)
           d == Decode(Take(l.buf, Len(l.buf) - 1))
       IN  /\ pos' = l.pos
           /\ buf' = l.buf
           /\ attempts' = l.attempts
           /\ results' = Append(results,
                 IF l.end = "BufferError" THEN Result("recv", "BufferError", l.pos)
                 ELSE IF d.ok THEN [Result("recv", "Ok", l.pos) EXCEPT !.frame = d.frame]
                 ELSE [Result("recv", "ParseError", l.pos) EXCEPT !.err = d.err])
    /\ UNCHANGED <<pc, cfg, stream, log, open_result, frame, req, codecVars>>

Recv ==
    /\ pc = "live"
    /\ Len(results) < MaxOps
    /\ LET l == RecvLoop(pos, <<>>, 0)
           d == Decode(l.buf)
       IN  /\ pos' = l.pos
           /\ buf' = l.buf
           /\ attempts' = l.attempts
           /\ results' = Append(results,
                 IF l.end = "BufferError" THEN Result("recv", "BufferError", l.pos)
                 ELSE IF d.ok THEN [Result("recv", "Ok", l.pos) EXCEPT !.frame = d.frame]
                 ELSE [Result("recv", "ParseError", l.pos) EXCEPT !.err = d.err])
    /\ UNCHANGED <<pc, cfg, stream, log, open_result, frame, req, codecVars>>

\* a variant of SendEchoLoop that gives up when nothing more arrives
RECURSIVE Mut_SendEchoLoop(_, _, _)
Mut_SendEchoLoop(p, stored, n) ==
    IF p >= Len(stream) THEN [pos |-> p, buf |-> stored, attempts |-> n, stalled |-> FALSE]
    ELSE IF stream[p + 1] = Gap THEN Mut_SendEchoLoop(p + 1, stored, n + 1)
    ELSE LET kept == IF Len(stored) < SendBufLen THEN Append(stored, stream[p + 1])
                     ELSE stored
         IN  IF IsTerminator(stream[p + 1])
             THEN [pos |-> p + 1, buf |-> kept, attempts |-> n + 1, stalled |-> FALSE]
             ELSE Mut_SendEchoLoop(p + 1, kept, n + 1)

\* a variant of SendEchoLoop that skips a run longer than an echo and reads
\* the next run as the echo
RECURSIVE Mut_SendEchoLoopSkip(_, _, _)
Mut_SendEchoLoopSkip(p, stored, n) ==
    IF p >= Len(stream) THEN [pos |-> p, buf |-> stored, attempts |-> n, stalled |-> TRUE]
    ELSE IF stream[p + 1] = Gap THEN Mut_SendEchoLoopSkip(p + 1, stored, n + 1)
    ELSE LET kept == IF Len(stored) < SendBufLen THEN Append(stored, stream[p + 1])
                     ELSE stored
         IN  IF IsTerminator(stream[p + 1])
             THEN IF Len(kept) > 2 THEN Mut_SendEchoLoopSkip(p + 1, <<>>, n + 1)
                  ELSE [pos |-> p + 1, buf |-> kept, attempts |-> n + 1, stalled |-> FALSE]
             ELSE Mut_SendEchoLoopSkip(p + 1, kept, n + 1)

\* The echo loop of send from position p: no bound on the iterations; a
\* cursor over the 27 byte buffer, writes past its end are dropped.
\* stalled: the stream ends with no terminator read, the loop never exits.
RECURSIVE SendEchoLoop(_, _, _)
SendEchoLoop(p, stored, n) ==
    IF p >= Len(stream) THEN [pos |-> p, buf |-> stored, attempts |-> n, stalled |-> TRUE]
    ELSE IF stream[p + 1] = Gap THEN SendEchoLoop(p + 1, stored, n + 1)
    ELSE LET kept == IF Len(stored) < SendBufLen THEN Append(stored, stream[p + 1])
                     ELSE stored
         IN  IF IsTerminator(stream[p + 1])
             THEN [pos |-> p + 1, buf |-> kept, attempts |-> n + 1, stalled |-> FALSE]
             ELSE SendEchoLoop(p + 1, kept, n + 1)

\* a variant of SendClassify that accepts either echo for either format
Mut_SendClassify(f, echo) ==
    IF Len(echo) = 1
    THEN IF echo[1] = Asc.BEL THEN "UnsuccessfulSend" ELSE "IncorrectResponse"
    ELSE IF Len(echo) = 2
    THEN IF echo = <<Asc.z, Asc.CR>> \/ echo = <<Asc.Z, Asc.CR>> THEN "Ok"
         ELSE "IncorrectResponse"
    ELSE "IncorrectResponse"

\* match cursor.position() { 1 => .., 2 => .., _ => .. }
SendClassify(f, echo) ==
    IF Len(echo) = 1
    THEN IF echo[1] = Asc.BEL THEN "UnsuccessfulSend" ELSE "IncorrectResponse"
    ELSE IF Len(echo) = 2
    THEN IF f.identifier_format = "Standard"
         THEN IF echo = <<Asc.z, Asc.CR>> THEN "Ok" ELSE "IncorrectResponse"
         ELSE IF echo = <<Asc.Z, Asc.CR>> THEN "Ok" ELSE "IncorrectResponse"
    ELSE "IncorrectResponse"

\* a variant of WriteComplete that lets a short write pass
Mut_WriteComplete(w, len) == w >= 0

\* the check of what port.write returned: Ok(size) with size = len
WriteComplete(w, len) == w = len

SendRequests ==
    {[can_id |-> U32(0, 291), format |-> "Standard", frame_type |-> "DataFrame",
      dlc |-> 2, data |-> <<17, 34, 51, 68, 85, 102, 119, 136>>, timestamp |-> 0],
     [can_id |-> U32(7, 536870911), format |-> "Extended", frame_type |-> "RemoteFrame",
      dlc |-> 1, data |-> ZeroData, timestamp |-> 200],
     [can_id |-> U32(0, 291), format |-> "Standard", frame_type |-> "DataFrame",
      dlc |-> 9, data |-> ZeroData, timestamp |-> 0]}

Send ==
    /\ pc = "live"
    /\ Len(results) < MaxOps
    /\ \E r \in SendRequests :
          LET f == BuildFrame(r)
              enc == Encode(f)
          IN  /\ req' = r
              /\ frame' = f
              /\ IF enc.kind # "Ok"
                 THEN /\ results' = Append(results, Sent(f, enc.kind, pos))
                      /\ pc' = IF enc.kind = "Panic" THEN "panicked" ELSE "live"
                      /\ UNCHANGED <<log, pos, buf, attempts>>
                 ELSE \E w \in WriteOutcomes(Len(enc.bytes)) :
                         /\ log' = Append(log, WriteCall(enc.bytes, w))
                         /\ IF ~WriteComplete(w, Len(enc.bytes))
                            THEN /\ results' = Append(results,
                                                  Sent(f, "DataLossError", pos))
                                 /\ UNCHANGED <<pc, pos, buf, attempts>>
                            ELSE LET e == SendEchoLoop(pos, <<>>, 0)
                                 IN  /\ pos' = e.pos
                                     /\ buf' = e.buf
                                     /\ attempts' = e.attempts
                                     /\ pc' = IF e.stalled THEN "send_stalled" ELSE "live"
                                     /\ results' =
                                          IF e.stalled THEN results
                                          ELSE Append(results,
                                                 Sent(f, SendClassify(f, e.buf), e.pos))
    /\ UNCHANGED <<cfg, stream, open_result, codecVars>>

\* send() with no terminator to come: read_exact fails, the loop continues
SendSpin ==
    /\ pc = "send_stalled"
    /\ UNCHANGED vars

StatusCommand == <<Asc.F, Asc.CR>>

SerialNumberCommand == <<Asc.N, Asc.CR>>

\* a variant of StatusAccepts that checks the first and the last byte only
Mut_StatusAccepts(n, rbuf) == n = 4 /\ rbuf[1] = Asc.F /\ rbuf[4] = Asc.CR

\* the response check of status(): F, two hex digits, CR
StatusAccepts(n, rbuf) ==
    /\ n = 4
    /\ ~(rbuf[1] # Asc.F \/ ~IsAsciiHexDigit(rbuf[2]) \/ ~IsAsciiHexDigit(rbuf[3])
         \/ rbuf[4] # Asc.CR)

\* a variant of StatusByte that parses the two digits in radix 10
Mut_StatusByte(rbuf) ==
    IF rbuf[2] \in 48..57 /\ rbuf[3] \in 48..57
    THEN (10 * (rbuf[2] - 48)) + (rbuf[3] - 48)
    ELSE 27

\* u8::from_str_radix(&buf[1..=2], 16).unwrap_or(27)
StatusByte(rbuf) ==
    LET r == FromStrRadix16(SubSeq(rbuf, 2, 3), 8)
    IN  IF r.ok THEN r.v.lo ELSE 27

Status ==
    /\ pc = "live"
    /\ Len(results) < MaxOps
    /\ \E w \in WriteOutcomes(2) :
          IF w # 2
          THEN /\ log' = Append(log, WriteCall(StatusCommand, w))
               /\ results' = Append(results, Result("status", "Err", pos))
               /\ pos' = pos
          ELSE LET r == BlockRead(pos, 4)
                   rbuf == ReadBuf(4, r)
               IN  /\ log' = log \o <<WriteCall(StatusCommand, w), ReadCall(r)>>
                   /\ pos' = pos + r.used
                   /\ results' = Append(results,
                        IF StatusAccepts(r.n, rbuf)
                        THEN [Result("status", "Ok", pos + r.used)
                                 EXCEPT !.status = StatusByte(rbuf)]
                        ELSE Result("status", "Err", pos + r.used))
    /\ UNCHANGED <<pc, cfg, stream, open_result, frame, req, buf, attempts, codecVars>>

\* The read loop of serial_number: a failed read_exact ends it; a cursor
\* over the 6 byte buffer, writes past its end are dropped.
SerialBufLen == 6

RECURSIVE SerialLoop(_, _, _)
SerialLoop(p, stored, n) ==
    IF p >= Len(stream) THEN [pos |-> p, buf |-> stored, attempts |-> n + 1]
    ELSE IF stream[p + 1] = Gap THEN [pos |-> p + 1, buf |-> stored, attempts |-> n + 1]
    ELSE LET kept == IF Len(stored) < SerialBufLen THEN Append(stored, stream[p + 1])
                     ELSE stored
         IN  IF IsTerminator(stream[p + 1])
             THEN [pos |-> p + 1, buf |-> kept, attempts |-> n + 1]
             ELSE SerialLoop(p + 1, kept, n + 1)

\* a variant of SerialNumberParse without the message termination check
Mut_SerialNumberParse(value) ==
    IF \E i \in 1..Len(value) : value[i] >= 128 THEN "AsciiError"
    ELSE IF Len(value) # 6 THEN "InvalidSize"
    ELSE IF value[1] # Asc.N THEN "MessageStartError"
    ELSE "Ok"

\* impl TryFrom<&[u8]> for SerialNumber: the error kind, or "Ok"
SerialNumberParse(value) ==
    IF \E i \in 1..Len(value) : value[i] >= 128 THEN "AsciiError"
    ELSE IF Len(value) # 6 THEN "InvalidSize"
    ELSE IF value[1] # Asc.N THEN "MessageStartError"
    ELSE IF value[Len(value)] # Asc.CR THEN "MessageTerminationError"
    ELSE "Ok"

SerialNumber ==
    /\ pc = "live"
    /\ Len(results) < MaxOps
    /\ \E w \in WriteOutcomes(2) :
          /\ log' = Append(log, WriteCall(SerialNumberCommand, w))
          /\ IF w # 2
             THEN /\ results' = Append(results, Result("serial_number", "Err", pos))
                  /\ UNCHANGED <<pos, buf, attempts>>
             ELSE LET l == SerialLoop(pos, <<>>, 0)
                  IN  /\ pos' = l.pos
                      /\ buf' = l.buf
                      /\ attempts' = l.attempts
                      /\ results' = Append(results,
                           IF SerialNumberParse(l.buf) = "Ok"
                           THEN [Result("serial_number", "Ok", l.pos)
                                    EXCEPT !.serial = SubSeq(l.buf, 2, 5)]
                           ELSE Result("serial_number", "Err", l.pos))
    /\ UNCHANGED <<pc, cfg, stream, open_result, frame, req, codecVars>>

\* a variant of DropChannel that releases the port without the close command
Mut_DropChannel ==
    /\ pc \in {"live", "panicked"}
    /\ pc' = "released"
    /\ UNCHANGED <<cfg, stream, pos, log, open_result, frame, req, buf, attempts,
                   results, codecVars>>

\* impl Drop for LawicelCanUsb: close() writes the close command and reads
\* one byte, ignoring both outcomes; then the serial port is dropped.
DropChannel ==
    /\ pc \in {"live", "panicked"}
    /\ \E w \in WriteOutcomes(2) :
          LET r == BlockRead(pos, 1)
          IN  /\ log' = log \o <<WriteCall(CloseCommand, w), ReadCall(r)>>
              /\ pos' = pos + r.used
    /\ pc' = "released"
    /\ UNCHANGED <<cfg, stream, open_result, frame, req, buf, attempts, results,
                   codecVars>>

(***************************************************************************)
(* Sessions: what the builder is given and what the adapter delivers       *)
(***************************************************************************)
BitrateSamples ==
    {[kind |-> "Bitrate10K", btr0 |-> 0, btr1 |-> 0],
     [kind |-> "Bitrate1M", btr0 |-> 0, btr1 |-> 0],
     [kind |-> "Btr", btr0 |-> 3, btr1 |-> 172]}

\* timestamps are switched on in the session that sets a raw BTR pair
Configs ==
    {[use_timestamps |-> b.kind = "Btr", bitrate |-> b, retries |-> 0] :
        b \in BitrateSamples}

EchoStd == <<Asc.z, Asc.CR>>

EchoExt == <<Asc.Z, Asc.CR>>

Bell == <<Asc.BEL>>

\* t1230 CR
FrameA == <<Asc.t, 49, 50, 51, 48, Asc.CR>>

\* T1FFFFFFF2A1b2 CR
FrameB == <<Asc.T, 49, 70, 70, 70, 70, 70, 70, 70, 50, 65, 49, 98, 50, Asc.CR>>

\* t613000C8 CR: dlc 0 and the timestamp 200
FrameC == <<Asc.t, 54, 49, 51, 48, 48, 48, 67, 56, Asc.CR>>

\* r7651 CR
FrameR == <<Asc.r, 55, 54, 53, 49, Asc.CR>>

\* F05 CR
StatusResponse == <<Asc.F, 48, 53, Asc.CR>>

\* NA123 CR
SerialResponse == <<Asc.N, 65, 49, 50, 51, Asc.CR>>

\* what arrives during the handshake: the five responses, or less
HandshakeStreams ==
    {Repeat(Asc.CR, 7),
     <<>>,
     <<Asc.CR, Asc.CR, Gap, Asc.CR, Asc.CR, Asc.CR, Asc.CR, Asc.CR>>,
     <<Asc.CR, Asc.BEL, Asc.CR, Asc.CR, Asc.CR, Asc.CR, Asc.CR>>,
     <<Asc.CR, Asc.CR, Asc.CR, Gap, Asc.CR, Asc.CR, Asc.CR, Asc.CR>>,
     <<Asc.CR, Asc.CR, Asc.CR, Asc.CR, Gap, Asc.CR, Asc.CR, Asc.CR>>,
     <<Asc.CR, Asc.CR, Asc.CR, Asc.BEL, Asc.x, Asc.CR, Asc.BEL>>,
     <<Asc.CR, Asc.CR, Asc.CR, Asc.CR, Asc.CR, Asc.BEL, Asc.CR>>,
     <<Asc.CR, Asc.CR, Asc.CR, Asc.CR, Asc.CR, Gap, Asc.CR, Asc.CR>>,
     <<Asc.CR, Asc.CR, Asc.CR, Asc.CR, Asc.CR, Asc.CR, Gap, Asc.CR>>,
     <<Asc.CR, Asc.CR, Asc.CR, Asc.CR, Asc.CR, Asc.CR>>,
     <<Asc.CR, Asc.CR, Asc.CR, Eof, Asc.CR, Asc.CR, Asc.CR>>,
     <<Asc.CR, Asc.CR, Asc.CR, Asc.CR, Asc.CR, Eof, Asc.CR>>,
     <<Asc.CR, Asc.CR, Asc.CR, Asc.CR, Asc.CR, Asc.CR, Eof, Asc.CR>>}

SessionTails == {<<>>, FrameA \o EchoStd \o StatusResponse}

SessionStreams ==
    HandshakeStreams \cup {Repeat(Asc.CR, 7) \o c : c \in SessionTails}

\* what arrives on a live channel
ChannelStreams ==
    {<<>>,
     EchoStd \o EchoExt \o EchoStd,
     Bell \o EchoStd \o <<Asc.x, Asc.CR>>,
     FrameA \o FrameB \o FrameC,
     <<Asc.x, Asc.x>> \o FrameA \o FrameB \o FrameR,
     <<Gap, Asc.t, 49, 50, Gap, Gap, 51, 48, Asc.CR, Gap>> \o FrameC \o FrameA,
     FrameA \o EchoStd \o FrameB,
     Repeat(Asc.x, 32) \o <<Asc.CR>> \o FrameA,
     Repeat(Asc.x, 30) \o EchoStd \o EchoExt,
     StatusResponse \o SerialResponse \o EchoExt,
     <<Asc.F, 48, Gap, 53, Asc.CR>> \o FrameR,
     <<Asc.N, 65, 49, Gap, 50, 51, Asc.CR>> \o SerialResponse,
     <<Asc.t, 49, 50, 51, Asc.BEL>> \o FrameR \o FrameB,
     EchoExt \o FrameR \o StatusResponse,
     <<Asc.z, Asc.BEL>> \o FrameC \o <<Asc.x>>,
     <<Asc.F, 71, 53, Asc.CR>> \o <<Asc.F, Asc.plus, 53, Asc.CR>>
         \o <<Asc.F, 97, 70, Asc.CR>>,
     <<Asc.N, 65, 49, 50, 51, 52, Asc.CR>> \o <<Asc.N, 65, 49, 50, 51, Asc.BEL>>
         \o SerialResponse,
     <<Asc.N, 200, 49, 50, 51, Asc.CR>> \o <<Asc.x, 65, 49, 50, 51, Asc.CR>>
         \o <<Asc.N, 65, Asc.CR>>}

(***************************************************************************)
(* Inputs of the codec checks                                              *)
(***************************************************************************)
MaxRunLen == 33

IdSamples == {U32(0, 0), U32(0, 291), U32(0, 2047), U32(0, 8191),
              U32(0, 536870911), U32(7, 536870911)}

DlcSamples == 0..9

DataSamples == {ZeroData,
                <<17, 34, 51, 68, 85, 102, 119, 136>>,
                <<255, 10, 0, 171, 1, 240, 15, 128>>}

TimestampSamples == {0, 200, 59999, 60000}

Requests ==
    [can_id : IdSamples, format : {"Standard", "Extended"},
     frame_type : {"DataFrame", "RemoteFrame"}, dlc : DlcSamples,
     data : DataSamples, timestamp : TimestampSamples]

NoRequest ==
    [can_id |-> U32(0, 0), format |-> "Standard", frame_type |-> "DataFrame",
     dlc |-> 0, data |-> ZeroData, timestamp |-> 0]

\* n bytes taken cyclically from pattern
Fill(pattern, n) == [i \in 1..n |-> pattern[((i - 1) % Len(pattern)) + 1]]

Markers == {Asc.t, Asc.T, Asc.r, Asc.R, Asc.x}

\* '0'..'9', 'A', 'b', '+'
DlcChars == (48..57) \cup {65, 98, Asc.plus}

\* hex digits in both cases (fields below 60000), all 'F', a sign, a
\* non-ASCII byte, "EA60" (60000 where a field starts on the pattern)
FillPatterns == {<<49, 97, 50, 66>>, <<Asc.zero>>, <<70>>,
                 <<Asc.plus, 49>>, <<Asc.bad, 49>>, <<69, 65, 54, 48>>}

IdDigits(len) ==
    IF len % 2 = 0 THEN {<<49, 50, 51>>, <<55, 102, 70>>, <<Asc.plus, 49, 50>>,
                         <<70, 70, 70>>}
    ELSE {<<49, 70, 70, 70, 70, 70, 70, 70>>, <<48, 48, 48, 48, 48, 49, 50, 51>>,
          <<70, 70, 70, 70, 70, 70, 70, 70>>}

LastBytes == {Asc.CR, Asc.BEL, Asc.zero}

\* marker, identifier digits, dlc digit, filler, last byte: len bytes in all
MakeRun(marker, len, id, dlcChar, pattern, last) ==
    LET head == <<marker>> \o id \o <<dlcChar>>
    IN  IF len <= Len(head) THEN SubSeq(head, 1, len)
        ELSE head \o Fill(pattern, len - Len(head) - 1) \o <<last>>

CodecIdle == [done |-> FALSE, enc |-> [kind |-> "none", bytes |-> <<>>],
              dec |-> ParseErr("none")]

(***************************************************************************)
(* The codec applied to one input                                          *)
(***************************************************************************)
SessionIdle ==
    /\ pc = "idle"
    /\ cfg = [use_timestamps |-> FALSE,
              bitrate |-> [kind |-> "Bitrate10K", btr0 |-> 0, btr1 |-> 0],
              retries |-> 0]
    /\ stream = <<>>
    /\ pos = 0
    /\ log = <<>>
    /\ open_result = "none"
    /\ frame = CanFrameBuilder_new
    /\ req = NoRequest
    /\ buf = <<>>
    /\ attempts = 0
    /\ results = <<>>

InitCodec ==
    /\ SessionIdle
    /\ cout = CodecIdle
    /\ \/ \E r \in Requests : cin = [kind |-> "frame", req |-> r, run |-> <<>>]
       \/ \E len \in 0..MaxRunLen, marker \in Markers, dlcChar \in DlcChars,
             pattern \in FillPatterns, last \in LastBytes :
             \E id \in IdDigits(len) :
                cin = [kind |-> "run", req |-> NoRequest,
                       run |-> MakeRun(marker, len, id, dlcChar, pattern, last)]

\* build the frame, encode it as send() does, decode what was encoded
CodecEncodeDecode ==
    /\ cin.kind = "frame"
    /\ ~cout.done
    /\ LET enc == Encode(BuildFrame(cin.req))
       IN  cout' = [done |-> TRUE, enc |-> enc,
                    dec |-> IF enc.kind = "Ok" THEN Decode(enc.bytes)
                            ELSE ParseErr("none")]
    /\ UNCHANGED <<cin, sessionVars>>

\* decode a byte run
CodecDecode ==
    /\ cin.kind = "run"
    /\ ~cout.done
    /\ cout' = [done |-> TRUE, enc |-> [kind |-> "none", bytes |-> <<>>],
                dec |-> Decode(cin.run)]
    /\ UNCHANGED <<cin, sessionVars>>

NextCodec == CodecEncodeDecode \/ CodecDecode

SpecCodec == InitCodec /\ [][NextCodec]_vars

(***************************************************************************)
(* The session: builder, handshake, channel operations, drop               *)
(***************************************************************************)
Init ==
    /\ pc = "builder"
    /\ cfg \in Configs
    /\ stream \in SessionStreams
    /\ pos = 0
    /\ log = <<>>
    /\ open_result = "none"
    /\ frame = CanFrameBuilder_new
    /\ req = NoRequest
    /\ buf = <<>>
    /\ attempts = 0
    /\ results = <<>>
    /\ cin = [kind |-> "none", req |-> NoRequest, run |-> <<>>]
    /\ cout = CodecIdle

Next ==
    \/ OpenPort
    \/ StepFlush
    \/ StepClose
    \/ StepTimestamp
    \/ StepBitrate
    \/ StepOpen
    \/ Send
    \/ SendSpin
    \/ Recv
    \/ Status
    \/ SerialNumber
    \/ DropChannel

Spec == Init /\ [][Next]_vars

\* the transport calls of an open() every step of which succeeded
OpenedLog(c) ==
    <<WriteCall(FlushCommand, 3),
      [op |-> "read", bytes |-> FlushCommand, n |-> 3],
      WriteCall(CloseCommand, 2),
      [op |-> "read", bytes |-> <<Asc.CR>>, n |-> 1],
      WriteCall(TimestampCommand(c.use_timestamps), 3),
      [op |-> "read", bytes |-> <<Asc.CR>>, n |-> 1],
      WriteCall(BitrateCommand(c.bitrate), BitrateExpectedSize(c.bitrate)),
      [op |-> "read", bytes |-> <<Asc.CR>>, n |-> 1],
      WriteCall(OpenCommand, 2),
      [op |-> "read", bytes |-> <<Asc.CR>>, n |-> 1]>>

\* a live Channel, as a successful open() returns it
InitChannel ==
    /\ pc = "live"
    /\ cfg \in {c \in Configs : c.bitrate.kind = "Bitrate10K" /\ ~c.use_timestamps}
    /\ stream \in ChannelStreams
    /\ pos = 0
    /\ log = OpenedLog(cfg)
    /\ open_result = "Ok"
    /\ frame = CanFrameBuilder_new
    /\ req = NoRequest
    /\ buf = <<>>
    /\ attempts = 0
    /\ results = <<>>
    /\ cin = [kind |-> "none", req |-> NoRequest, run |-> <<>>]
    /\ cout = CodecIdle

NextChannel ==
    \/ Send
    \/ SendSpin
    \/ Recv
    \/ Status
    \/ SerialNumber
    \/ DropChannel

SpecChannel == InitChannel /\ [][NextChannel]_vars

(***************************************************************************)
(* open() alone, over every bitrate and builder setting                    *)
(***************************************************************************)
BtrSamples == {0, 10, 15, 16, 172, 255}

AllBitrates ==
    {[kind |-> Presets[i], btr0 |-> 0, btr1 |-> 0] : i \in 1..Len(Presets)}
    \cup {[kind |-> "Btr", btr0 |-> a, btr1 |-> b] : a \in BtrSamples, b \in BtrSamples}

\* retries, acceptance code register, acceptance mask register: the
\* defaults of new(), and values set through the builder
RegisterSettings ==
    {[retries |-> 0, acr |-> U32(0, 0), amr |-> U32(7, 536870911)],
     [retries |-> 3, acr |-> U32(0, 291), amr |-> U32(0, 0)]}

OpenConfigs ==
    {[use_timestamps |-> ut, bitrate |-> b, retries |-> g.retries,
      acceptance_code_register |-> g.acr, acceptance_mask_register |-> g.amr] :
        ut \in BOOLEAN, b \in AllBitrates, g \in RegisterSettings}

InitOpen ==
    /\ pc = "builder"
    /\ cfg \in OpenConfigs
    /\ stream \in HandshakeStreams
    /\ pos = 0
    /\ log = <<>>
    /\ open_result = "none"
    /\ frame = CanFrameBuilder_new
    /\ req = NoRequest
    /\ buf = <<>>
    /\ attempts = 0
    /\ results = <<>>
    /\ cin = [kind |-> "none", req |-> NoRequest, run |-> <<>>]
    /\ cout = CodecIdle

NextOpen ==
    \/ OpenPort
    \/ StepFlush
    \/ StepClose
    \/ StepTimestamp
    \/ StepBitrate
    \/ StepOpen

SpecOpen == InitOpen /\ [][NextOpen]_vars

(***************************************************************************)
(* Status (status.rs)                                                      *)
(***************************************************************************)
\* v >> k on an unsigned value below 2^31
ShiftRight(v, k) == v \div (2 ^ k)

Status_from_u8(value) == [status |-> value]

U8_from_Status(value) == value.status

receive_fifo_is_full(self) ==
    LET value == BitAnd(ShiftRight(self.status, 0), 1) IN value # 0

transmit_fifo_is_full(self) ==
    LET value == BitAnd(ShiftRight(self.status, 1), 1) IN value # 0

error_warning(self) ==
    LET value == BitAnd(ShiftRight(self.status, 2), 1) IN value # 0

data_overrun(self) ==
    LET value == BitAnd(ShiftRight(self.status, 3), 1) IN value # 0

\* a variant of error_passive that reads the bit next to data_overrun's
Mut_error_passive(self) ==
    LET value == BitAnd(ShiftRight(self.status, 4), 1) IN value # 0

error_passive(self) ==
    LET value == BitAnd(ShiftRight(self.status, 5), 1) IN value # 0

arbitration_lost(self) ==
    LET value == BitAnd(ShiftRight(self.status, 6), 1) IN value # 0

bus_error(self) ==
    LET value == BitAnd(ShiftRight(self.status, 7), 1) IN value # 0

(***************************************************************************)
(* AcceptanceCodeRegister and AcceptanceMaskRegister (filter.rs)           *)
(*                                                                         *)
(* A filter is what the CanIdFilter trait gives: mask_type(), can_id()     *)
(* and mask(), the last two as u32.                                        *)
(***************************************************************************)
STANDARD_FRAME_ID_LENGTH == 11

EXTENDED_FRAME_ID_LENGTH == 29

\* a | b on unsigned values
RECURSIVE BitOr(_, _)
BitOr(a, b) ==
    IF a = 0 THEN b
    ELSE IF b = 0 THEN a
    ELSE (IF a % 2 = 1 \/ b % 2 = 1 THEN 1 ELSE 0) + (2 * BitOr(a \div 2, b \div 2))

\* v << k on an unsigned value, the result below 2^31
ShiftLeft(v, k) == v * (2 ^ k)

\* `as u8`
AsU8(v) == v % 256

\* !v on a u32
Not32(v) == U32(7 - v.hi, 536870911 - v.lo)

\* (v >> k) & mask on a u32, for k <= 29 and a mask of the form 2^m - 1
\* with m <= 29 - k or k >= 3
Shr32And(v, k, mask) ==
    IF k < 3 THEN BitAnd(ShiftRight(v.lo, k), mask)
    ELSE BitAnd((v.hi * (2 ^ (29 - k))) + ShiftRight(v.lo, k), mask)

AcceptanceCodeRegister_new(acr0, acr1, acr2, acr3) ==
    [acr0 |-> acr0, acr1 |-> acr1, acr2 |-> acr2, acr3 |-> acr3]

\* a variant of from_single_filter whose byte1 field is one step off: shifted
\* by 4 in a Standard filter, taken from bits [20:13] in an Extended one
Mut_AcceptanceCodeRegister_from_single_filter(value) ==
    IF value.mask_type = "Standard"
    THEN LET b0 == AsU8(Shr32And(value.can_id, STANDARD_FRAME_ID_LENGTH - 8, 255))
             b1 == AsU8(BitOr(ShiftLeft(Shr32And(value.can_id, 0, 7), 4), 31))
         IN  AcceptanceCodeRegister_new(b0, b1, b0, b1)
    ELSE LET b0 == AsU8(Shr32And(value.can_id, EXTENDED_FRAME_ID_LENGTH - 8, 255))
             b1 == AsU8(BitOr(ShiftLeft(
                          Shr32And(value.can_id, EXTENDED_FRAME_ID_LENGTH - 8 - 8, 255),
                          3), 7))
         IN  AcceptanceCodeRegister_new(b0, b1, b0, b1)

AcceptanceCodeRegister_from_single_filter(value) ==
    IF value.mask_type = "Standard"
    THEN AcceptanceCodeRegister_new(
            AsU8(Shr32And(value.can_id, STANDARD_FRAME_ID_LENGTH - 8, 255)),
            AsU8(BitOr(ShiftLeft(Shr32And(value.can_id, 0, 7), 5), 31)),
            AsU8(Shr32And(value.can_id, STANDARD_FRAME_ID_LENGTH - 8, 255)),
            AsU8(BitOr(ShiftLeft(Shr32And(value.can_id, 0, 7), 5), 31)))
    ELSE AcceptanceCodeRegister_new(
            AsU8(Shr32And(value.can_id, EXTENDED_FRAME_ID_LENGTH - 8, 255)),
            AsU8(BitOr(ShiftLeft(
                    Shr32And(value.can_id, EXTENDED_FRAME_ID_LENGTH - 8 - 5, 255),
                    3), 7)),
            AsU8(Shr32And(value.can_id, EXTENDED_FRAME_ID_LENGTH - 8, 255)),
            AsU8(BitOr(ShiftLeft(
                    Shr32And(value.can_id, EXTENDED_FRAME_ID_LENGTH - 8 - 5, 255),
                    3), 7)))

\* a variant of From<u32> that takes acr1 and acr2 in little-endian order
Mut_AcceptanceCodeRegister_from_u32(value) ==
    [acr0 |-> AsU8(Shr32And(value, 24, 255)),
     acr1 |-> AsU8(Shr32And(value, 8, 255)),
     acr2 |-> AsU8(Shr32And(value, 16, 255)),
     acr3 |-> AsU8(Shr32And(value, 0, 255))]

AcceptanceCodeRegister_from_u32(value) ==
    [acr0 |-> AsU8(Shr32And(value, 24, 255)),
     acr1 |-> AsU8(Shr32And(value, 16, 255)),
     acr2 |-> AsU8(Shr32And(value, 8, 255)),
     acr3 |-> AsU8(Shr32And(value, 0, 255))]

\* (b0 << 24) | (b1 << 16) | (b2 << 8) | (b3 << 0) as a u32: the three top
\* bits of b0 are the three top bits of the result
Pack32(b0, b1, b2, b3) ==
    U32(ShiftRight(b0, 5),
        BitOr(BitOr(ShiftLeft(BitAnd(b0, 31), 24), ShiftLeft(b1, 16)),
              BitOr(ShiftLeft(b2, 8), ShiftLeft(b3, 0))))

U32_from_AcceptanceCodeRegister(value) ==
    Pack32(value.acr0, value.acr1, value.acr2, value.acr3)

AcceptanceCodeRegister_register(self) == U32_from_AcceptanceCodeRegister(self)

AcceptanceMaskRegister_new(amr0, amr1, amr2, amr3) ==
    [amr0 |-> amr0, amr1 |-> amr1, amr2 |-> amr2, amr3 |-> amr3]

\* a variant of from_single_filter that uses the mask as it is supplied
Mut_AcceptanceMaskRegister_from_single_filter(value) ==
    IF value.mask_type = "Standard"
    THEN LET b0 == AsU8(Shr32And(value.mask, STANDARD_FRAME_ID_LENGTH - 8, 255))
             b1 == AsU8(BitOr(ShiftLeft(Shr32And(value.mask, 0, 7), 5), 31))
         IN  AcceptanceMaskRegister_new(b0, b1, b0, b1)
    ELSE LET b0 == AsU8(Shr32And(value.mask, EXTENDED_FRAME_ID_LENGTH - 8, 255))
             b1 == AsU8(BitOr(ShiftLeft(
                          Shr32And(value.mask, EXTENDED_FRAME_ID_LENGTH - 8 - 5, 255),
                          3), 7))
         IN  AcceptanceMaskRegister_new(b0, b1, b0, b1)

AcceptanceMaskRegister_from_single_filter(value) ==
    IF value.mask_type = "Standard"
    THEN AcceptanceMaskRegister_new(
            AsU8(Shr32And(Not32(value.mask), STANDARD_FRAME_ID_LENGTH - 8, 255)),
            AsU8(BitOr(ShiftLeft(Shr32And(Not32(value.mask), 0, 7), 5), 31)),
            AsU8(Shr32And(Not32(value.mask), STANDARD_FRAME_ID_LENGTH - 8, 255)),
            AsU8(BitOr(ShiftLeft(Shr32And(Not32(value.mask), 0, 7), 5), 31)))
    ELSE AcceptanceMaskRegister_new(
            AsU8(Shr32And(Not32(value.mask), EXTENDED_FRAME_ID_LENGTH - 8, 255)),
            AsU8(BitOr(ShiftLeft(
                    Shr32And(Not32(value.mask), EXTENDED_FRAME_ID_LENGTH - 8 - 5, 255),
                    3), 7)),
            AsU8(Shr32And(Not32(value.mask), EXTENDED_FRAME_ID_LENGTH - 8, 255)),
            AsU8(BitOr(ShiftLeft(
                    Shr32And(Not32(value.mask), EXTENDED_FRAME_ID_LENGTH - 8 - 5, 255),
                    3), 7)))

AcceptanceMaskRegister_from_u32(value) ==
    [amr0 |-> AsU8(Shr32And(value, 24, 255)),
     amr1 |-> AsU8(Shr32And(value, 16, 255)),
     amr2 |-> AsU8(Shr32And(value, 8, 255)),
     amr3 |-> AsU8(Shr32And(value, 0, 255))]

U32_from_AcceptanceMaskRegister(value) ==
    Pack32(value.amr0, value.amr1, value.amr2, value.amr3)

AcceptanceMaskRegister_register(self) == U32_from_AcceptanceMaskRegister(self)

(***************************************************************************)
(* The register codecs applied to one input                                *)
(***************************************************************************)
\* low 29 bits of the identifiers, masks and register values tried:
\* 0x601, 0x7FF, 0x7F8, 0x123, 0x18DA0000, 0x1FFFFFFF, 0x1FFF0000,
\* 0x0ABBCCDD, 0x12345678, 0x001F0000
LowSamples == {0, 1537, 2047, 2040, 291, 416940032, 536870911, 536805376,
               180079837, 305419896, 2031616}

U32Samples == {U32(hi, lo) : hi \in {0, 5, 7}, lo \in LowSamples}

Filters ==
    {[mask_type |-> t, can_id |-> id, mask |-> m] :
        t \in {"Standard", "Extended"}, id \in U32Samples, m \in U32Samples}

ByteSamples == {0, 1, 31, 32, 170, 255}

InitRegisters ==
    /\ SessionIdle
    /\ cout = [done |-> FALSE]
    /\ \/ \E b \in 0..255 : cin = [kind |-> "status", byte |-> b]
       \/ \E f \in Filters : cin = [kind |-> "filter", filter |-> f]
       \/ \E v \in U32Samples : cin = [kind |-> "u32", value |-> v]
       \/ \E b0 \in ByteSamples, b1 \in ByteSamples, b2 \in ByteSamples,
             b3 \in ByteSamples :
             cin = [kind |-> "bytes", bytes |-> <<b0, b1, b2, b3>>]

\* Status::from(byte), every flag, and u8::from(status)
StatusConvert ==
    /\ cin.kind = "status"
    /\ ~cout.done
    /\ LET s == Status_from_u8(cin.byte)
       IN  cout' = [done |-> TRUE,
                    receive_fifo_is_full |-> receive_fifo_is_full(s),
                    transmit_fifo_is_full |-> transmit_fifo_is_full(s),
                    error_warning |-> error_warning(s),
                    data_overrun |-> data_overrun(s),
                    error_passive |-> error_passive(s),
                    arbitration_lost |-> arbitration_lost(s),
                    bus_error |-> bus_error(s),
                    byte |-> U8_from_Status(s)]
    /\ UNCHANGED <<cin, sessionVars>>

\* both registers from one filter, and their 32-bit values
RegistersFromSingleFilter ==
    /\ cin.kind = "filter"
    /\ ~cout.done
    /\ LET code == AcceptanceCodeRegister_from_single_filter(cin.filter)
           mask == AcceptanceMaskRegister_from_single_filter(cin.filter)
       IN  cout' = [done |-> TRUE, code |-> code, mask |-> mask,
                    code_u32 |-> U32_from_AcceptanceCodeRegister(code),
                    mask_u32 |-> U32_from_AcceptanceMaskRegister(mask)]
    /\ UNCHANGED <<cin, sessionVars>>

\* u32 -> register -> u32, by conversion and by register()
RegistersFromU32 ==
    /\ cin.kind = "u32"
    /\ ~cout.done
    /\ LET code == AcceptanceCodeRegister_from_u32(cin.value)
           mask == AcceptanceMaskRegister_from_u32(cin.value)
       IN  cout' = [done |-> TRUE, code |-> code, mask |-> mask,
                    code_u32 |-> U32_from_AcceptanceCodeRegister(code),
                    mask_u32 |-> U32_from_AcceptanceMaskRegister(mask),
                    code_register |-> AcceptanceCodeRegister_register(code),
                    mask_register |-> AcceptanceMaskRegister_register(mask)]
    /\ UNCHANGED <<cin, sessionVars>>

\* new(b0, b1, b2, b3).register()
RegistersNew ==
    /\ cin.kind = "bytes"
    /\ ~cout.done
    /\ LET code == AcceptanceCodeRegister_new(cin.bytes[1], cin.bytes[2],
                                              cin.bytes[3], cin.bytes[4])
           mask == AcceptanceMaskRegister_new(cin.bytes[1], cin.bytes[2],
                                              cin.bytes[3], cin.bytes[4])
       IN  cout' = [done |-> TRUE, code |-> code, mask |-> mask,
                    code_register |-> AcceptanceCodeRegister_register(code),
                    mask_register |-> AcceptanceMaskRegister_register(mask)]
    /\ UNCHANGED <<cin, sessionVars>>

NextRegisters ==
    \/ StatusConvert
    \/ RegistersFromSingleFilter
    \/ RegistersFromU32
    \/ RegistersNew

SpecRegisters == InitRegisters /\ [][NextRegisters]_vars

(***************************************************************************)
(* Properties of the handshake and of the session's end                    *)
(***************************************************************************)
IsWrite(e, bytes) == e.op = "write" /\ e.bytes = bytes

\* the number of transport calls of a successful handshake
HandshakeLen == Len(OpenedLog(cfg))

\* C1: on every successful open() the transport sees exactly: the flush
\* CR CR CR written then a read, C CR then a read, Z1 CR (timestamps on) or
\* Z0 CR (off) then a read, the bitrate command then a read, O CR then a
\* read; every command is written whole, and nothing else is written.
C1_OpenWritesInOrder ==
    open_result = "Ok" =>
        /\ Len(log) >= HandshakeLen
        /\ \A k \in 1..5 : log[(2 * k) - 1].op = "write" /\ log[2 * k].op = "read"
        /\ \A k \in 1..5 : log[(2 * k) - 1].n = Len(log[(2 * k) - 1].bytes)
        /\ log[1].bytes = <<13, 13, 13>>
        /\ log[3].bytes = <<67, 13>>
        /\ log[5].bytes = IF cfg.use_timestamps THEN <<90, 49, 13>> ELSE <<90, 48, 13>>
        /\ log[7].bytes = BitrateCommand(cfg.bitrate)
        /\ log[9].bytes = <<79, 13>>
        /\ (pc = "live" /\ results = <<>> => Len(log) = HandshakeLen)

C1_Witness ==
    /\ open_result = "Ok"
    /\ pc = "live"
    /\ results = <<>>
    /\ cfg.use_timestamps
    /\ cfg.bitrate.kind = "Btr"

\* the response count the spec requires of step k
RequiredCount(k) == IF k = 1 THEN 3 ELSE 1

\* step k of the handshake failed, as the log shows it: the write failed or
\* was short, the read failed, the response count was wrong, or (steps 1
\* and 4, whose response must be CR) a response byte was wrong
StepFailed(k) ==
    /\ Len(log) >= (2 * k) - 1
    /\ \/ log[(2 * k) - 1].n # Len(log[(2 * k) - 1].bytes)
       \/ /\ Len(log) >= 2 * k
          /\ \/ log[2 * k].n # RequiredCount(k)
             \/ k \in {1, 4} /\ \E i \in 1..Len(log[2 * k].bytes) :
                                   log[2 * k].bytes[i] # 13

\* C2: a failed handshake step makes open() return LawicelConfigurationError
\* with no command of a later step written (a flush read of fewer than 3
\* bytes leaves the three CR as the only bytes written); a transport that
\* does not open gives SerialPortOpenError and nothing is written.
C2_HandshakeAborts ==
    /\ \A k \in 1..5 :
          (Len(log) <= HandshakeLen \/ open_result # "Ok") /\ StepFailed(k) =>
              /\ open_result = "LawicelConfigurationError"
              /\ Len(log) <= 2 * k
              /\ pc = "released"
    /\ open_result = "SerialPortOpenError" => log = <<>> /\ pc = "no_port"
    /\ open_result = "LawicelConfigurationError" => pc = "released" /\ log # <<>>

C2_Witness ==
    /\ open_result = "LawicelConfigurationError"
    /\ Len(log) = 2
    /\ log[1] = WriteCall(<<13, 13, 13>>, 3)
    /\ log[2].n = 2

\* C3: whenever the transport handle has been released, every O CR written
\* to it is followed by a later C CR.
C3_NeverLeftOpen ==
    pc \in {"released", "no_port"} =>
        \A i \in DOMAIN log :
            IsWrite(log[i], <<79, 13>>) /\ log[i].n = 2 =>
                \E j \in DOMAIN log : j > i /\ IsWrite(log[j], <<67, 13>>)

\* the close commands written after the handshake
ClosesWritten == {i \in DOMAIN log : i > HandshakeLen /\ IsWrite(log[i], <<67, 13>>)}

\* C4: a Channel that open() returned writes C CR exactly once, when it is
\* dropped, and then makes one read of a single byte; this whatever the
\* operations before returned and whatever the close write and read return;
\* nothing happens on the channel after that.
C4_CloseOnceAtEnd ==
    /\ [](open_result = "Ok" =>
            IF pc = "released"
            THEN /\ ClosesWritten = {Len(log) - 1}
                 /\ log[Len(log)].op = "read"
                 /\ Len(log[Len(log)].bytes) <= 1
            ELSE ClosesWritten = {})
    /\ [][pc = "released" => pc' = "released" /\ log' = log /\ results' = results]_vars

C4_Witness ==
    /\ open_result = "Ok"
    /\ pc = "released"
    /\ Len(results) = MaxOps
    /\ \A i \in DOMAIN results : results[i].kind # "Ok"
    /\ log[Len(log)].n = -1

(***************************************************************************)
(* Properties of the frame codec                                           *)
(***************************************************************************)
RoundTripDone == cin.kind = "frame" /\ cout.done /\ cin.req.dlc <= 8

RoundTripHolds ==
    /\ cout.enc.kind = "Ok"
    /\ cout.dec.ok
    /\ FrameEq(cout.dec.frame, BuildFrame(cin.req))

\* C5 (as stated): for every format, frame type, dlc 0..8 and timestamp
\* (absent, or present and below 60000), decoding the encoding of a frame
\* gives a frame equal to the original.
C5_RoundTripAnyTimestamp ==
    RoundTripDone /\ cin.req.timestamp < TimestampLimit => RoundTripHolds

\* C5 (amended): a frame built with timestamp 0, of either format, either
\* requested frame type and dlc 0..8, is encoded and decodes to an equal
\* frame; a frame with a timestamp 1..59999 is encoded without it and
\* decodes to a frame with timestamp 0 that is not equal to the original.
C5_RoundTripNoTimestamp ==
    /\ RoundTripDone /\ cin.req.timestamp = 0 => RoundTripHolds
    /\ RoundTripDone /\ cin.req.timestamp > 0 =>
          /\ cout.enc.kind = "Ok"
          /\ cout.dec.ok
          /\ cout.dec.frame.timestamp = 0
          /\ ~FrameEq(cout.dec.frame, BuildFrame(cin.req))

C5_Witness ==
    /\ RoundTripDone
    /\ cin.req.timestamp = 0
    /\ cin.req.format = "Extended"
    /\ cin.req.dlc = 8
    /\ cin.req.data[1] = 255
    /\ cin.req.can_id = U32(7, 536870911)
    /\ Len(cout.enc.bytes) = 27
    /\ cout.dec.ok

\* what the claims call a run's fields
RunDataMark(run) == run[1] \in {116, 84}

RunRemoteMark(run) == run[1] \in {114, 82}

\* 6 for a Standard run, 11 for an Extended run: marker, identifier, dlc, CR
RunHeader(run) == IF run[1] \in {116, 114} THEN 6 ELSE 11

RunDlc(run) == HexValue(run[RunHeader(run) - 1])

\* the four hex digits before the final CR
RunStamp(run) ==
    LET n == Len(run)
    IN  (((((HexValue(run[n - 4]) * 16) + HexValue(run[n - 3])) * 16)
          + HexValue(run[n - 2])) * 16) + HexValue(run[n - 1])

\* a run of a table length for its marker, hex digits between marker and
\* terminator, CR last
WellFormedRun(run) ==
    /\ Len(run) >= 6
    /\ RunDataMark(run) \/ RunRemoteMark(run)
    /\ IF RunHeader(run) = 6 THEN Len(run) \in StandardLengths
       ELSE Len(run) \in ExtendedLengths
    /\ \A i \in 2..(Len(run) - 1) : IsAsciiHexDigit(run[i])
    /\ run[Len(run)] = 13

\* decode succeeded with this format reading, dlc and timestamp
DecodedAs(run, stamp) ==
    /\ cout.dec.ok
    /\ cout.dec.frame.identifier_format =
           IF RunHeader(run) = 6 THEN "Standard" ELSE "Extended"
    /\ cout.dec.frame.dlc = RunDlc(run)
    /\ cout.dec.frame.timestamp = stamp

DecodeFailed(kind) == ~cout.dec.ok /\ cout.dec.err = kind

\* C6: a well-formed run of length L with marker t (T) and dlc digit d
\* decodes iff L = 6+2d (11+2d), without timestamp, or L = 10+2d (15+2d),
\* with the 4 hex digits after the payload as timestamp (below 60000);
\* every other d fails with the dlc error.  A well-formed run with marker
\* r (R) and dlc 0..8 decodes at length 6 (11) without timestamp and at
\* length 10 (15) with timestamp, and fails with invalid size at every
\* other length.  A length-10 t run with dlc 0 has a timestamp, with dlc 2
\* it has none.
C6_LengthDlcResolution ==
    cin.kind = "run" /\ cout.done /\ WellFormedRun(cin.run) =>
        LET run == cin.run
            L == Len(run)
            h == RunHeader(run)
            d == RunDlc(run)
        IN  /\ RunDataMark(run) =>
                  IF d <= 8 /\ L = h + (2 * d)
                  THEN DecodedAs(run, 0) /\ is_data_frame(cout.dec.frame)
                  ELSE IF d <= 8 /\ L = h + 4 + (2 * d)
                  THEN IF RunStamp(run) < 60000
                       THEN /\ DecodedAs(run, RunStamp(run))
                            /\ is_data_frame(cout.dec.frame)
                       ELSE DecodeFailed("TimestampError")
                  ELSE DecodeFailed("DlcError")
            /\ RunRemoteMark(run) /\ d <= 8 =>
                  IF L = h THEN DecodedAs(run, 0)
                  ELSE IF L = h + 4
                  THEN IF RunStamp(run) < 60000 THEN DecodedAs(run, RunStamp(run))
                       ELSE DecodeFailed("TimestampError")
                  ELSE DecodeFailed("InvalidSize")
            /\ run[1] = 116 /\ L = 10 /\ d = 0 /\ RunStamp(run) < 60000 =>
                  /\ cout.dec.ok
                  /\ cout.dec.frame.identifier_format = "Standard"
                  /\ is_data_frame(cout.dec.frame)
                  /\ cout.dec.frame.timestamp = RunStamp(run)
                  /\ Frame_data(cout.dec.frame) = <<>>
            /\ run[1] = 116 /\ L = 10 /\ d = 2 =>
                  /\ cout.dec.ok
                  /\ cout.dec.frame.identifier_format = "Standard"
                  /\ is_data_frame(cout.dec.frame)
                  /\ cout.dec.frame.timestamp = 0
                  /\ Len(Frame_data(cout.dec.frame)) = 2

C6_Witness ==
    /\ cin.kind = "run"
    /\ cout.done
    /\ WellFormedRun(cin.run)
    /\ cin.run[1] = 116
    /\ Len(cin.run) = 10
    /\ RunDlc(cin.run) = 0
    /\ cout.dec.ok
    /\ cout.dec.frame.timestamp = 6699

\* C7: a well-formed run with marker r or R decodes to the RemoteFrame
\* variant with the decoded identifier and dlc and an empty data(); a run
\* with marker t or T decodes to the DataFrame variant.
C7_RemoteVariant ==
    cin.kind = "run" /\ cout.done /\ WellFormedRun(cin.run) /\ cout.dec.ok =>
        /\ RunRemoteMark(cin.run) =>
              /\ is_remote_frame(cout.dec.frame)
              /\ ~is_data_frame(cout.dec.frame)
              /\ cout.dec.frame.dlc = RunDlc(cin.run)
              /\ Frame_data(cout.dec.frame) = <<>>
        /\ RunDataMark(cin.run) => is_data_frame(cout.dec.frame)

(***************************************************************************)
(* Properties of the channel operations                                    *)
(***************************************************************************)
\* the bytes that arrived in stream[from + 1 .. to]
SpanBytes(from, to) == SelectSeq(SubSeq(stream, from + 1, to), LAMBDA b : b # Gap)

Terminators(bytes) == {i \in DOMAIN bytes : IsTerminator(bytes[i])}

LastResult == results[Len(results)]

\* send() has just written req's frame to the transport
JustSent ==
    /\ log[Len(log)].op = "write"
    /\ Len(log) > HandshakeLen
    /\ \/ pc = "send_stalled"
       \/ results # <<>> /\ LastResult.op = "send"

\* C8: sending a RemoteFrame of dlc 0..8 writes r (Standard) or R (Extended),
\* the 3 or 8 identifier hex digits, one dlc hex digit and CR, and no payload
\* digits.
C8_RemoteOnWire ==
    JustSent /\ req.frame_type = "RemoteFrame" /\ req.dlc <= 8 =>
        log[Len(log)].bytes =
            IF req.format = "Standard"
            THEN <<114>> \o FormatHex(BitAnd(req.can_id.lo, 2047), 3)
                         \o FormatHex(req.dlc, 1) \o <<13>>
            ELSE <<82>> \o FormatHex(BitAnd(req.can_id.lo, 536870911), 8)
                        \o FormatHex(req.dlc, 1) \o <<13>>

\* the classification the spec gives of an echo after a frame of a format
EchoClass(echo, format) ==
    IF echo = <<7>> THEN "UnsuccessfulSend"
    ELSE IF Len(echo) = 1 THEN "IncorrectResponse"
    ELSE IF echo = <<122, 13>> /\ format = "Standard" THEN "Ok"
    ELSE IF echo = <<90, 13>> /\ format = "Extended" THEN "Ok"
    ELSE "IncorrectResponse"

EchoRead(r) == r.op = "send" /\ r.kind \in {"Ok", "UnsuccessfulSend", "IncorrectResponse"}

\* C9: a send() whose write was complete reads up to and including the
\* first CR or BEL and returns: UnsuccessfulSend for [BEL]; IncorrectResponse
\* for one other byte; Ok for [z, CR] after a Standard frame and for [Z, CR]
\* after an Extended frame; IncorrectResponse for everything else.
C9_EchoClassification ==
    \A i \in DOMAIN results :
        EchoRead(results[i]) =>
            LET echo == SpanBytes(results[i].from, results[i].to)
            IN  /\ Terminators(echo) = {Len(echo)}
                /\ stream[results[i].to] # Gap
                /\ results[i].kind = EchoClass(echo, results[i].frame.identifier_format)

C9_Witness ==
    /\ Len(results) = 3
    /\ \A i \in 1..3 : EchoRead(results[i])
    /\ results[1].kind = "Ok" /\ results[1].frame.identifier_format = "Standard"
    /\ results[2].kind = "Ok" /\ results[2].frame.identifier_format = "Extended"
    /\ results[3].kind = "IncorrectResponse"
    /\ results[3].frame.identifier_format = "Extended"
    /\ SpanBytes(results[3].from, results[3].to) = <<122, 13>>

\* the recv() call of result r ended by reading a terminator
EndedOnTerminator(r) ==
    /\ r.op = "recv"
    /\ r.to > r.from
    /\ IsTerminator(stream[r.to])

\* where the k-th terminator-ended run after position p ends (0: there is none)
RECURSIVE RunEnd(_, _)
RunEnd(p, k) ==
    IF k = 0 THEN p
    ELSE LET ends == {q \in (p + 1)..Len(stream) : IsTerminator(stream[q])}
         IN  IF p = 0 - 1 \/ ends = {} THEN 0 - 1
             ELSE RunEnd(CHOOSE q \in ends : \A o \in ends : q <= o, k - 1)

\* the k-th run after p: the encoding of a well-formed frame, delivered
\* within the read attempts of one recv()
FrameDelivered(p, k) ==
    /\ RunEnd(p, k) > 0
    /\ Decode(SpanBytes(RunEnd(p, k - 1), RunEnd(p, k))).ok
    /\ RunEnd(p, k) - RunEnd(p, k - 1) <= 3 * 31

\* C10: recv() consumes nothing beyond the first CR or BEL it reads; and
\* after a recv() that ended by reading a terminator, if the encodings of
\* well-formed frames f1..fn arrive next, the next n recv() calls return
\* decode(f1)..decode(fn) in that order, each consuming exactly its frame.
C10_Resynchronisation ==
    /\ \A i \in DOMAIN results :
          results[i].op = "recv" =>
              LET got == SpanBytes(results[i].from, results[i].to)
              IN  /\ Terminators(got) \subseteq {Len(got)}
                  /\ Terminators(got) # {} => stream[results[i].to] # Gap
    /\ \A i \in DOMAIN results : \A n \in 1..(Len(results) - i) :
          /\ EndedOnTerminator(results[i])
          /\ \A k \in 1..n : results[i + k].op = "recv"
          /\ \A k \in 1..n : FrameDelivered(results[i].to, k)
          => \A k \in 1..n :
                /\ results[i + k].kind = "Ok"
                /\ results[i + k].from = RunEnd(results[i].to, k - 1)
                /\ results[i + k].to = RunEnd(results[i].to, k)
                /\ results[i + k].frame =
                       Decode(SpanBytes(RunEnd(results[i].to, k - 1),
                                        RunEnd(results[i].to, k))).frame

C10_Witness ==
    /\ Len(results) = 3
    /\ results[1].op = "recv" /\ results[1].kind = "ParseError"
    /\ EndedOnTerminator(results[1])
    /\ results[2].op = "recv" /\ results[2].kind = "Ok"
    /\ results[3].op = "recv" /\ results[3].kind = "Ok"
    /\ SpanBytes(results[2].from, results[2].to) = FrameB
    /\ SpanBytes(results[3].from, results[3].to) = FrameR
    /\ results[2].frame.can_id = 536870911
    /\ results[3].frame.can_id = 1893

(***************************************************************************)
(* Bounds on the transport calls of an operation                           *)
(***************************************************************************)
WritesIn(calls) == Cardinality({i \in DOMAIN calls : calls[i].op = "write"})

ReadsIn(calls) == Cardinality({i \in DOMAIN calls : calls[i].op = "read"})

\* the transport calls this step adds to the log
NewCalls == SubSeq(log', Len(log) + 1, Len(log'))

\* this step is the return of an operation op of the channel
Returns(op) ==
    /\ Len(results') = Len(results) + 1
    /\ results'[Len(results')].op = op

\* open() is running or has returned, and no operation of the channel has run
OnlyOpenRan ==
    \/ pc \in {"builder", "flush", "close", "timestamp", "bitrate", "open", "no_port"}
    \/ pc = "released" /\ open_result # "Ok"
    \/ pc = "live" /\ results = <<>>

\* C11: recv() makes at most 93 (3 x 31) read attempts, failed ones
\* included; status() makes at most one write and one read; open() makes
\* at most five writes and five reads.
C11_BoundedCalls ==
    /\ [](results # <<>> /\ LastResult.op = "recv" => attempts <= 93)
    /\ [](OnlyOpenRan => WritesIn(log) <= 5 /\ ReadsIn(log) <= 5)
    /\ [][Returns("status") =>
             /\ WritesIn(NewCalls) <= 1
             /\ ReadsIn(NewCalls) <= 1
             /\ Len(NewCalls) <= 2]_vars

C11_Witness ==
    /\ open_result = "Ok"
    /\ WritesIn(log) = 5
    /\ ReadsIn(log) = 5
    /\ Len(results) = 1
    /\ LastResult.op = "recv"
    /\ LastResult.kind = "ParseError"
    /\ attempts = 93

\* recv() has just returned after all its read attempts, no terminator read
RecvExhausted ==
    /\ results # <<>>
    /\ LastResult.op = "recv"
    /\ attempts = 93
    /\ (buf = <<>> \/ ~IsTerminator(buf[Len(buf)]))
    /\ Terminators(SpanBytes(LastResult.from, LastResult.to)) = {}

\* C12: a recv() that used up its read attempts without reading a CR or
\* BEL returns BufferError or IndexingError, neither a parse error nor a
\* frame.
C12_ExhaustedIsBufferError ==
    RecvExhausted => LastResult.kind \in {"BufferError", "IndexingError"}

(***************************************************************************)
(* send(): the echo read and the write check                               *)
(***************************************************************************)
\* this step writes a frame to the transport, and the write is complete
FrameWritten ==
    /\ Len(log') = Len(log) + 1
    /\ log'[Len(log')].op = "write"
    /\ log'[Len(log')].bytes[1] \in {116, 84}
    /\ log'[Len(log')].n = Len(log'[Len(log')].bytes)

\* a CR or BEL is still to come after position p
TerminatorAhead(p) == Terminators(SpanBytes(p, Len(stream))) # {}

\* C13: after a complete write send() returns if and only if a CR or BEL is
\* read: it returns on the first terminator, and when only read errors and
\* other bytes follow it never returns.
C13_SendEchoUnbounded ==
    /\ [][FrameWritten =>
             /\ Returns("send") <=> TerminatorAhead(pos)
             /\ pc' = "send_stalled" <=> ~TerminatorAhead(pos)
             /\ Returns("send") =>
                   Terminators(SpanBytes(pos, pos')) = {Len(SpanBytes(pos, pos'))}]_vars
    /\ [][pc = "send_stalled" => pc' = "send_stalled" /\ results' = results]_vars
    /\ [](pc = "send_stalled" => pos = Len(stream) /\ ~TerminatorAhead(pos))

C13_Witness ==
    /\ pc = "send_stalled"
    /\ buf = <<120>>
    /\ attempts = 1
    /\ Len(results) = 2

\* this step writes a frame to the transport, and the write fails or is short
FrameWriteLost ==
    /\ Len(log') > Len(log)
    /\ log'[Len(log) + 1].op = "write"
    /\ log'[Len(log) + 1].bytes[1] \in {116, 84}
    /\ log'[Len(log) + 1].n # Len(log'[Len(log) + 1].bytes)

\* C14: when the write of send() fails or reports fewer bytes than the
\* encoded length, send() returns DataLossError and makes no read: nothing
\* of the incoming stream is consumed.
C14_DataLossNoRead ==
    /\ [][FrameWriteLost =>
             /\ Returns("send")
             /\ results'[Len(results')].kind = "DataLossError"
             /\ Len(log') = Len(log) + 1
             /\ pos' = pos]_vars
    /\ [][Returns("send") /\ results'[Len(results')].kind = "DataLossError" =>
             FrameWriteLost]_vars
    /\ [](\A i \in DOMAIN results :
             results[i].kind = "DataLossError" => results[i].from = results[i].to)

C14_Witness ==
    /\ results # <<>>
    /\ LastResult.kind = "DataLossError"
    /\ log[Len(log)].n = Len(log[Len(log)].bytes) - 1
    /\ pos = 0
    /\ TerminatorAhead(pos)

(***************************************************************************)
(* status() and serial_number()                                            *)
(***************************************************************************)
IsHexDigitByte(b) == b \in (48..57) \cup (65..70) \cup (97..102)

HexDigitValue(b) == IF b <= 57 THEN b - 48 ELSE IF b <= 70 THEN b - 55 ELSE b - 87

\* this step's read returned 4 bytes, F first and CR last
FramedStatusResponse ==
    /\ Len(NewCalls) = 2
    /\ NewCalls[2].op = "read"
    /\ NewCalls[2].n = 4
    /\ NewCalls[2].bytes[1] = 70
    /\ NewCalls[2].bytes[4] = 13

\* its two middle bytes are not both hex digits
MalformedStatusDigits ==
    /\ FramedStatusResponse
    /\ ~(IsHexDigitByte(NewCalls[2].bytes[2]) /\ IsHexDigitByte(NewCalls[2].bytes[3]))

C16_StatusDecode ==
    [][Returns("status") =>
          LET r == results'[Len(results')]
              answered == /\ NewCalls[1].n = 2
                          /\ FramedStatusResponse
                          /\ ~MalformedStatusDigits
          IN  /\ NewCalls # <<>>
              /\ NewCalls[1].op = "write"
              /\ NewCalls[1].bytes = <<70, 13>>
              /\ NewCalls[1].n # 2 => Len(NewCalls) = 1
              /\ r.kind = IF answered THEN "Ok" ELSE "Err"
              /\ answered =>
                    r.status = (16 * HexDigitValue(NewCalls[2].bytes[2]))
                               + HexDigitValue(NewCalls[2].bytes[3])]_vars

C16_Witness ==
    /\ results # <<>>
    /\ LastResult.op = "status"
    /\ LastResult.kind = "Ok"
    /\ LastResult.status = 175
    /\ log[Len(log)].bytes = <<70, 97, 70, 13>>

\* C17: serial_number() writes exactly N CR and returns Ok(sn) if and only
\* if the bytes read up to and including the first CR or BEL are exactly N,
\* four ASCII characters, CR; sn is then those four characters.  A shorter or
\* longer run, a run ending in BEL, a wrong first byte or a non-ASCII byte
\* gives Err.
C17_SerialNumberDecode ==
    [][Returns("serial_number") =>
          LET r == results'[Len(results')]
              run == SpanBytes(pos, pos')
              answered == /\ NewCalls[1].n = 2
                          /\ Len(run) = 6
                          /\ Terminators(run) = {6}
                          /\ run[1] = 78
                          /\ run[6] = 13
                          /\ \A i \in 2..5 : run[i] < 128
          IN  /\ NewCalls # <<>>
              /\ NewCalls[1].op = "write"
              /\ NewCalls[1].bytes = <<78, 13>>
              /\ NewCalls[1].n # 2 => pos' = pos
              /\ r.kind = IF answered THEN "Ok" ELSE "Err"
              /\ answered => r.serial = SubSeq(run, 2, 5)]_vars

C17_Witness ==
    /\ Len(results) = 3
    /\ results[1].op = "serial_number" /\ results[1].kind = "Err"
    /\ results[2].op = "serial_number" /\ results[2].kind = "Err"
    /\ SpanBytes(results[2].from, results[2].to) = <<78, 65, 49, 50, 51, 7>>
    /\ results[3].op = "serial_number" /\ results[3].kind = "Ok"
    /\ results[3].serial = SubSeq(SpanBytes(results[3].from, results[3].to), 2, 5)

(***************************************************************************)
(* Timestamps, the data length code and the frame invariants               *)
(***************************************************************************)
\* C18: on a channel opened with use_timestamps = false every frame that
\* recv() returns has timestamp 0, whatever bytes the adapter delivers.
C18_NoTimestampWhenOff ==
    ~cfg.use_timestamps =>
        \A i \in DOMAIN results :
            results[i].op = "recv" /\ results[i].kind = "Ok" =>
                results[i].frame.timestamp = 0

\* C19: send() never aborts: for every frame the builder can construct it
\* returns Ok or one of the typed send errors.
C19_SendNeverAborts ==
    /\ pc # "panicked"
    /\ \A i \in DOMAIN results :
          results[i].op = "send" =>
             results[i].kind \in {"Ok", "FormatError", "SizeMismatchError",
                                  "DataLossError", "IncorrectResponse",
                                  "UnsuccessfulSend"}

\* the frame a codec input yields: built by the builder, or decoded from a run
CodecFrames ==
    IF ~cout.done THEN {}
    ELSE IF cin.kind = "frame" THEN {BuildFrame(cin.req)}
    ELSE IF cout.dec.ok THEN {cout.dec.frame}
    ELSE {}

\* C20: every CanFrame obtainable through the public API, built or decoded,
\* has dlc in 0..8 and timestamp in 0..59999, and its data() slice has
\* exactly dlc bytes.
C20_FrameInvariants ==
    \A f \in CodecFrames :
        /\ f.dlc \in 0..8
        /\ f.timestamp \in 0..59999
        /\ f.dlc <= Len(f.data)
        /\ Len(Frame_data(f)) = f.dlc

(***************************************************************************)
(* Identifier masking                                                      *)
(***************************************************************************)
\* bit i of n
BitOf(n, i) == (n \div (2 ^ i)) % 2

\* the number made of the k lowest bits of n: n AND (2^k - 1)
RECURSIVE LowBits(_, _)
LowBits(n, k) ==
    IF k = 0 THEN 0 ELSE LowBits(n, k - 1) + (BitOf(n, k - 1) * (2 ^ (k - 1)))

IdBits(format) == IF format = "Standard" THEN 11 ELSE 29

\* the 29 lowest bits of the number a run of hex digits denotes
RECURSIVE DigitsLow29(_, _)
DigitsLow29(digits, acc) ==
    IF digits = <<>> THEN acc
    ELSE DigitsLow29(Tail(digits), ((acc % (2 ^ 25)) * 16) + HexDigitValue(digits[1]))

\* the identifier field of a run of a table length, without its sign
IdField(run) ==
    LET field == IF Len(run) % 2 = 0 THEN SubSeq(run, 2, 4) ELSE SubSeq(run, 2, 9)
    IN  IF field[1] = 43 THEN Tail(field) ELSE field

\* C21: a frame built with the 32-bit identifier v reports can_id() = v AND
\* 0x7FF in Standard format and v AND 0x1FFFFFFF in Extended format: the
\* bits out of range are discarded, never rejected; so does a decoded frame
\* for the number its identifier field denotes.
C21_IdentifierMasking ==
    cout.done =>
       /\ cin.kind = "frame" =>
             /\ BuildFrame(cin.req).identifier_format = cin.req.format
             /\ Frame_can_id(BuildFrame(cin.req))
                   = LowBits(cin.req.can_id.lo, IdBits(cin.req.format))
       /\ cin.kind = "run" /\ cout.dec.ok =>
             Frame_can_id(cout.dec.frame)
                = LowBits(DigitsLow29(IdField(cin.run), 0),
                          IdBits(cout.dec.frame.identifier_format))

\* a decoded frame whose identifier field had bits out of range
C21_WitnessDecoded ==
    /\ cout.done
    /\ cin.kind = "run"
    /\ cout.dec.ok
    /\ SubSeq(cin.run, 1, 9) = <<84, 70, 70, 70, 70, 70, 70, 70, 70>>
    /\ Frame_can_id(cout.dec.frame) = 536870911

\* a built frame whose identifier had bits out of range
C21_Witness ==
    /\ cout.done
    /\ cin.kind = "frame"
    /\ cin.req.can_id = U32(0, 8191)
    /\ cin.req.format = "Standard"
    /\ Frame_can_id(BuildFrame(cin.req)) = 2047

(***************************************************************************)
(* Decode: the order and the kinds of its rejections                       *)
(***************************************************************************)
TableLengths == {6 + (2 * k) : k \in 0..10} \cup {11 + (2 * k) : k \in 0..10}

\* a run was decoded
Decoded == cout.done /\ cin.kind = "run"

\* the dlc digit of a run of a table length
DlcDigit(run) == IF Len(run) % 2 = 0 THEN run[5] ELSE run[10]

\* the dlc digit is a hex digit above 8
DlcAbove8(run) == IsHexDigitByte(DlcDigit(run)) /\ HexDigitValue(DlcDigit(run)) > 8

\* the leading byte is not a marker of the format the length decides
BadMarker(run) ==
    IF Len(run) % 2 = 0 THEN run[1] \notin {116, 114} ELSE run[1] \notin {84, 82}

\* C22: decode validates dlc <= 8 first, then the leading marker, then the
\* hex fields, the timestamp and the final CR: a run of a table length that
\* breaks several rules fails with the kind of the earliest one, so a run
\* with a bad marker and dlc digit 9 fails with DlcError.
C22_ValidationOrder ==
    Decoded /\ Len(cin.run) \in TableLengths =>
       /\ DlcAbove8(cin.run) => ~cout.dec.ok /\ cout.dec.err = "DlcError"
       /\ ~DlcAbove8(cin.run) /\ BadMarker(cin.run) =>
             ~cout.dec.ok /\ cout.dec.err = "MessageStartError"

\* the identifier field of a run of a table length is made of hex digits
IdFieldHex(run) ==
    \A i \in 2..(IF Len(run) % 2 = 0 THEN 4 ELSE 9) : IsHexDigitByte(run[i])

\* where the fields after the dlc digit start (0-based)
FieldBase(run) == IF Len(run) % 2 = 0 THEN 5 ELSE 10

\* all of a frame's shape but its last byte: a marker, a hex identifier, a
\* dlc digit 0..8, the payload the marker and the dlc call for as hex pairs
\* and a timestamp field of stampLen hex digits (0: none)
ShapeBody(run, stampLen) ==
    /\ Len(run) \in TableLengths
    /\ ~BadMarker(run)
    /\ IdFieldHex(run)
    /\ DlcDigit(run) \in 48..56
    /\ LET dataLen == IF run[1] \in {116, 84} THEN 2 * (DlcDigit(run) - 48) ELSE 0
       IN  /\ Len(run) = FieldBase(run) + dataLen + stampLen + 1
           /\ \A i \in (FieldBase(run) + 1)..(Len(run) - 1) : IsHexDigitByte(run[i])

\* the run has the shape of a frame with a timestamp, CR included
StampedShape(run) == ShapeBody(run, 4) /\ run[Len(run)] = 13

\* the number the four digits before the last byte denote
StampValue(run) ==
    LET n == Len(run)
    IN  (4096 * HexDigitValue(run[n - 4])) + (256 * HexDigitValue(run[n - 3]))
        + (16 * HexDigitValue(run[n - 2])) + HexDigitValue(run[n - 1])

\* C23: a run whose length is not in the table fails with InvalidSize; a run
\* of a table length with a leading byte that is no marker of its format
\* fails with MessageStartError; an otherwise well-formed run whose dlc
\* digit is a hex digit above 8 fails with DlcError; an otherwise
\* well-formed run with a timestamp field in 60000..65535 fails with
\* TimestampError.
C23_RejectionKinds ==
    Decoded =>
       LET run == cin.run
           fails(kind) == ~cout.dec.ok /\ cout.dec.err = kind
       IN  /\ Len(run) \notin TableLengths => fails("InvalidSize")
           /\ Len(run) \in TableLengths /\ BadMarker(run) => fails("MessageStartError")
           /\ Len(run) \in TableLengths /\ ~BadMarker(run) /\ IdFieldHex(run)
                 /\ DlcAbove8(run) => fails("DlcError")
           /\ StampedShape(run) /\ StampValue(run) >= 60000 => fails("TimestampError")
           /\ StampedShape(run) /\ StampValue(run) < 60000 => cout.dec.ok

C23_Witness ==
    /\ Decoded
    /\ StampedShape(cin.run)
    /\ StampValue(cin.run) = 60000
    /\ cout.dec.err = "TimestampError"

\* the run is a well-formed frame up to its last byte: without a timestamp,
\* or with one below 60000
WellFormedBody(run) ==
    \/ ShapeBody(run, 0)
    \/ ShapeBody(run, 4) /\ StampValue(run) < 60000

\* C24 (as stated): decoding a run whose last byte is not CR fails with
\* MessageTerminationError.
C24_NoCRIsTermination ==
    Decoded /\ (cin.run = <<>> \/ cin.run[Len(cin.run)] # 13) =>
        ~cout.dec.ok /\ cout.dec.err = "MessageTerminationError"

\* C24 (amended): no run whose last byte is not CR decodes; a run that is
\* well formed up to its last byte fails with MessageTerminationError when
\* that byte is not CR, and MessageTerminationError is returned only for
\* runs that do not end in CR.
C24_TerminationLast ==
    Decoded =>
       LET run == cin.run
           noCR == run = <<>> \/ run[Len(run)] # 13
       IN  /\ noCR => ~cout.dec.ok
           /\ noCR /\ WellFormedBody(run) => cout.dec.err = "MessageTerminationError"
           /\ ~cout.dec.ok /\ cout.dec.err = "MessageTerminationError" => noCR

C24_Witness ==
    /\ Decoded
    /\ ShapeBody(cin.run, 4)
    /\ cin.run[Len(cin.run)] = 7
    /\ ~cout.dec.ok
    /\ cout.dec.err = "MessageTerminationError"

(***************************************************************************)
(* Decode is total                                                         *)
(***************************************************************************)
ParseErrorKinds ==
    {"InvalidSize", "MessageStartError", "IntegerParseError", "Utf8Error",
     "DlcError", "DataError", "TimestampError", "MessageTerminationError"}

\* C25: for every byte run of every length, the empty run and runs longer
\* than 31 bytes included, decode returns a frame or exactly one of the
\* eight parse-error kinds; it never aborts, indexes out of bounds or
\* overflows its index arithmetic.
C25_DecodeTotal ==
    Decoded =>
       /\ ~DecodePanics(cin.run)
       /\ cout.dec.ok => cout.dec.err = "none"
       /\ ~cout.dec.ok => cout.dec.err \in ParseErrorKinds

C25_Witness ==
    /\ Decoded
    /\ Len(cin.run) = 31
    /\ \E i \in DOMAIN cin.run : cin.run[i] = 255
    /\ cout.dec.err = "Utf8Error"

\* a run longer than any frame is decoded
C25_WitnessLong ==
    /\ Decoded
    /\ Len(cin.run) = 32
    /\ cout.dec.err = "InvalidSize"

(***************************************************************************)
(* The wire format of a data frame                                         *)
(***************************************************************************)
\* "0123456789ABCDEF"
HexAlphabet == <<48, 49, 50, 51, 52, 53, 54, 55, 56, 57, 65, 66, 67, 68, 69, 70>>

\* n as exactly w uppercase hex digits, most significant first
WireDigits(n, w) == [i \in 1..w |-> HexAlphabet[((n \div (16 ^ (w - i))) % 16) + 1]]

\* two digits per payload byte, in payload order
WirePayload(data, dlc) ==
    [i \in 1..(2 * dlc) |->
        IF i % 2 = 1 THEN HexAlphabet[(data[(i + 1) \div 2] \div 16) + 1]
        ELSE HexAlphabet[(data[i \div 2] % 16) + 1]]

\* the bytes of a data frame on the wire
WireFrame(r) ==
    LET id == LowBits(r.can_id.lo, IdBits(r.format))
    IN  (IF r.format = "Standard" THEN <<116>> \o WireDigits(id, 3)
         ELSE <<84>> \o WireDigits(id, 8))
        \o WireDigits(r.dlc, 1) \o WirePayload(r.data, r.dlc) \o <<13>>

\* C26: for a data frame with dlc in 0..8 send() hands to the transport
\* exactly 't' + 3 uppercase hex digits of the identifier (Standard) or 'T'
\* + 8 digits (Extended), the dlc as one hex digit, the first dlc payload
\* bytes as two uppercase hex digits each and CR: 6 + 2 * dlc or
\* 11 + 2 * dlc bytes, without a timestamp field.
C26_DataFrameEncoding ==
    cout.done /\ cin.kind = "frame" /\ cin.req.dlc \in 0..8 =>
       /\ cout.enc.kind = "Ok"
       /\ cout.enc.bytes = WireFrame(cin.req)
       /\ Len(cout.enc.bytes)
             = (IF cin.req.format = "Standard" THEN 6 ELSE 11) + (2 * cin.req.dlc)

C26_Witness ==
    /\ cout.done
    /\ cin.kind = "frame"
    /\ cin.req.format = "Extended"
    /\ cin.req.can_id = U32(7, 536870911)
    /\ cin.req.dlc = 8
    /\ cin.req.timestamp = 200
    /\ cin.req.data = <<255, 10, 0, 171, 1, 240, 15, 128>>
    /\ Len(cout.enc.bytes) = 27

(***************************************************************************)
(* The acceptance conditions of the handshake steps                        *)
(***************************************************************************)
\* this step wrote a command whole and made one read after it
WroteAndRead(len) ==
    /\ Len(NewCalls) = 2
    /\ NewCalls[1].op = "write"
    /\ NewCalls[1].n = len
    /\ Len(NewCalls[1].bytes) = len
    /\ NewCalls[2].op = "read"

\* open() leaves step at: for next when passed holds, with the
\* configuration error otherwise
StepOutcome(at, next, passed) ==
    pc = at /\ pc' # at =>
       /\ pc' = next <=> passed
       /\ ~passed => pc' = "released" /\ open_result' = "LawicelConfigurationError"

\* C27: open() passes the flush step only if its read returns exactly 3
\* bytes, all CR; the close step and the timestamp step only if the read
\* returns exactly 1 byte, of any value; the bitrate step only if the write
\* reported 3 (preset) or 6 (raw pair) bytes and the read returned exactly
\* 1 byte equal to CR.  Any other outcome gives LawicelConfigurationError.
C27_StepAcceptance ==
    /\ [][StepOutcome("flush", "close",
            /\ WroteAndRead(3)
            /\ NewCalls[2].n = 3
            /\ NewCalls[2].bytes = <<13, 13, 13>>)]_vars
    /\ [][StepOutcome("close", "timestamp",
            WroteAndRead(2) /\ NewCalls[2].n = 1)]_vars
    /\ [][StepOutcome("timestamp", "bitrate",
            WroteAndRead(3) /\ NewCalls[2].n = 1)]_vars
    /\ [][StepOutcome("bitrate", "open",
            /\ WroteAndRead(IF cfg.bitrate.kind = "Btr" THEN 6 ELSE 3)
            /\ NewCalls[2].n = 1
            /\ NewCalls[2].bytes = <<13>>)]_vars

C27_Witness ==
    /\ pc = "released"
    /\ open_result = "LawicelConfigurationError"
    /\ Len(log) = 8
    /\ log[4].bytes = <<13>>
    /\ log[8].n = 1
    /\ log[8].bytes = <<7>>

\* the close and the timestamp step passed on bytes other than CR
C27_WitnessAnyByte ==
    /\ pc = "open"
    /\ log[4].bytes = <<7>>
    /\ log[6].bytes = <<120>>

\* C28: the step after O CR accepts when the byte count is right (one byte
\* read) or the byte is CR, not requiring both: it fails only on a read
\* error or when the count is not 1 and the byte is not CR.  A single
\* response byte of any value, BEL included, gives a live channel.
C28_OpenStepAcceptance ==
    [][StepOutcome("open", "live",
          /\ WroteAndRead(2)
          /\ NewCalls[2].n >= 0
          /\ \/ NewCalls[2].n = 1
             \/ NewCalls[2].bytes # <<>> /\ NewCalls[2].bytes[1] = 13)
       /\ (pc = "open" /\ pc' = "live" => open_result' = "Ok")]_vars

C28_Witness ==
    /\ pc = "live"
    /\ open_result = "Ok"
    /\ Len(log) = 10
    /\ log[10].n = 1
    /\ log[10].bytes = <<7>>

\* the read after O CR came back with no byte: open() failed
C28_WitnessNoByte ==
    /\ open_result = "LawicelConfigurationError"
    /\ Len(log) = 10
    /\ log[10].n = 0

(***************************************************************************)
(* The bitrate command; open() and the settings it does not use            *)
(***************************************************************************)
\* the digit of a preset
PresetDigit(kind) ==
    CASE kind = "Bitrate10K"  -> 48
      [] kind = "Bitrate20K"  -> 49
      [] kind = "Bitrate50K"  -> 50
      [] kind = "Bitrate100K" -> 51
      [] kind = "Bitrate125K" -> 52
      [] kind = "Bitrate250K" -> 53
      [] kind = "Bitrate500K" -> 54
      [] kind = "Bitrate800K" -> 55
      [] kind = "Bitrate1M"   -> 56

\* the bitrate command on the wire
BitrateWire(b) ==
    IF b.kind = "Btr"
    THEN <<115>> \o WireDigits(b.btr0, 2) \o WireDigits(b.btr1, 2) \o <<13>>
    ELSE <<83, PresetDigit(b.kind), 13>>

\* C29: for the presets 10K .. 1M the handshake writes the 3 bytes 'S',
\* digit, CR with the digits '0'..'8' in the order of the presets; for a
\* raw pair it writes the 6 bytes 's', two uppercase hex digits of btr0,
\* two of btr1, CR.
C29_BitrateCommand ==
    Len(log) >= 7 =>
       /\ log[7].op = "write"
       /\ log[7].bytes = BitrateWire(cfg.bitrate)
       /\ Len(log[7].bytes) = IF cfg.bitrate.kind = "Btr" THEN 6 ELSE 3

C29_Witness ==
    /\ Len(log) >= 7
    /\ cfg.bitrate = [kind |-> "Btr", btr0 |-> 172, btr1 |-> 15]
    /\ log[7].bytes = <<115, 65, 67, 48, 70, 13>>
    /\ log[7].n = 6

\* a preset was written
C29_WitnessPreset ==
    /\ Len(log) >= 7
    /\ cfg.bitrate.kind = "Bitrate800K"
    /\ log[7].bytes = <<83, 55, 13>>

\* the five commands of open() for a timestamp setting and a bitrate
OpenCommands(ut, br) ==
    <<<<13, 13, 13>>, <<67, 13>>, IF ut THEN <<90, 49, 13>> ELSE <<90, 48, 13>>,
      BitrateWire(br), <<79, 13>>>>

\* the response that lets step k pass
ReplyOk(k, r) ==
    CASE k = 1 -> r.n = 3 /\ r.bytes = <<13, 13, 13>>
      [] k = 4 -> r.n = 1 /\ r.bytes = <<13>>
      [] OTHER -> r.n = 1

\* The transport calls and the result of an open() that writes every
\* command once, from step k at stream position p, when the transport
\* answers the writes with ws: a function of the timestamp setting, the
\* bitrate and the transport's responses alone.
RECURSIVE Replay(_, _, _, _, _)
Replay(ut, br, k, p, ws) ==
    IF k > 5 THEN [calls |-> <<>>, result |-> "Ok"]
    ELSE IF ws = <<>> THEN [calls |-> <<>>, result |-> "none"]
    ELSE LET cmd == OpenCommands(ut, br)[k]
             wr == [op |-> "write", bytes |-> cmd, n |-> Head(ws)]
             r == BlockRead(p, IF k = 1 THEN 3 ELSE 1)
             rd == [op |-> "read", bytes |-> r.bytes, n |-> r.n]
         IN  IF Head(ws) # Len(cmd)
             THEN [calls |-> <<wr>>, result |-> "LawicelConfigurationError"]
             ELSE IF ~ReplyOk(k, r)
             THEN [calls |-> <<wr, rd>>, result |-> "LawicelConfigurationError"]
             ELSE LET rest == Replay(ut, br, k + 1, p + r.used, Tail(ws))
                  IN  [calls |-> <<wr, rd>> \o rest.calls, result |-> rest.result]

\* what the transport returned for the writes made so far
WriteReturns ==
    LET writes == SelectSeq(log, LAMBDA e : e.op = "write")
    IN  [i \in 1..Len(writes) |-> writes[i].n]

\* C30: open() never retries: every command is written at most once, and
\* the bytes written and the result depend only on use_timestamps, the
\* bitrate and the transport's responses; runs that differ in retries, the
\* acceptance code register or the acceptance mask register only, and see
\* the same responses, write the same bytes and return the same result.
C30_NoRetryNoFilter ==
    open_result # "SerialPortOpenError" =>
       LET once == Replay(cfg.use_timestamps, cfg.bitrate, 1, 0, WriteReturns)
       IN  /\ log = once.calls
           /\ open_result = once.result
           /\ WritesIn(log) <= 5
           /\ \A i, j \in DOMAIN log :
                 i < j /\ log[i].op = "write" /\ log[j].op = "write" =>
                    log[i].bytes # log[j].bytes

C30_Witness ==
    /\ cfg.retries = 3
    /\ cfg.acceptance_code_register = U32(0, 291)
    /\ open_result = "LawicelConfigurationError"
    /\ Len(log) = 2
    /\ log[2].n = 2
    /\ pc = "released"

(***************************************************************************)
(* The status flags                                                        *)
(***************************************************************************)
FlagBit(flag) == IF flag THEN 1 ELSE 0

StatusConverted == cin.kind = "status" /\ cout.done

\* the flags of the status byte that differs from b in bit 4 only
OtherBit4(b) == Status_from_u8(IF BitOf(b, 4) = 1 THEN b - 16 ELSE b + 16)

\* C31: the seven flags of a status byte b are its bits 0, 1, 2, 3, 5, 6 and
\* 7 (b is the sum of the flags weighted by their bit, plus bit 4), no flag
\* changes when bit 4 alone changes, the byte converted to Status and back
\* is b, and 0x05 gives receive-fifo-full and error-warning and nothing else.
C31_StatusFlagsAreBits ==
    StatusConverted =>
        /\ \E bit4 \in {0, 1} :
              cin.byte = FlagBit(cout.receive_fifo_is_full)
                         + (2 * FlagBit(cout.transmit_fifo_is_full))
                         + (4 * FlagBit(cout.error_warning))
                         + (8 * FlagBit(cout.data_overrun))
                         + (16 * bit4)
                         + (32 * FlagBit(cout.error_passive))
                         + (64 * FlagBit(cout.arbitration_lost))
                         + (128 * FlagBit(cout.bus_error))
        /\ LET other == OtherBit4(cin.byte)
           IN  /\ receive_fifo_is_full(other) = cout.receive_fifo_is_full
               /\ transmit_fifo_is_full(other) = cout.transmit_fifo_is_full
               /\ error_warning(other) = cout.error_warning
               /\ data_overrun(other) = cout.data_overrun
               /\ error_passive(other) = cout.error_passive
               /\ arbitration_lost(other) = cout.arbitration_lost
               /\ bus_error(other) = cout.bus_error
        /\ cout.byte = cin.byte
        /\ cin.byte = 5 =>
              /\ cout.receive_fifo_is_full /\ cout.error_warning
              /\ ~cout.transmit_fifo_is_full /\ ~cout.data_overrun
              /\ ~cout.error_passive /\ ~cout.arbitration_lost
              /\ ~cout.bus_error

C31_Witness ==
    /\ StatusConverted
    /\ cin.byte = 5
    /\ cout.receive_fifo_is_full /\ cout.error_warning

(***************************************************************************)
(* The acceptance registers                                                *)
(***************************************************************************)
FilterConverted == cin.kind = "filter" /\ cout.done

\* bit i of a u32
Bit32(v, i) == IF i < 29 THEN BitOf(v.lo, i) ELSE BitOf(v.hi, i - 29)

\* C32: the acceptance code register of a single filter: Standard, byte0 is
\* identifier bits [10:3] and byte1 has identifier bits [2:0] in bits 7..5
\* and ones in bits 4..0; Extended, byte0 is identifier bits [28:21] and
\* byte1 has identifier bits [20:16] in bits 7..3 and ones in bits 2..0;
\* byte2 = byte0 and byte3 = byte1; Standard 0x601 gives 0xC03FC03F and
\* Extended 0x18DA0000 gives 0xC6D7C6D7.
C32_CodeRegister ==
    FilterConverted =>
        LET id == cin.filter.can_id
            c == cout.code
        IN  /\ c.acr0 \in 0..255 /\ c.acr1 \in 0..255
            /\ cin.filter.mask_type = "Standard" =>
                  /\ \A i \in 0..7 : BitOf(c.acr0, i) = Bit32(id, i + 3)
                  /\ \A i \in 5..7 : BitOf(c.acr1, i) = Bit32(id, i - 5)
                  /\ \A i \in 0..4 : BitOf(c.acr1, i) = 1
                  /\ id = U32(0, 1537) => cout.code_u32 = U32(6, 4177983)
            /\ cin.filter.mask_type = "Extended" =>
                  /\ \A i \in 0..7 : BitOf(c.acr0, i) = Bit32(id, i + 21)
                  /\ \A i \in 3..7 : BitOf(c.acr1, i) = Bit32(id, i + 13)
                  /\ \A i \in 0..2 : BitOf(c.acr1, i) = 1
                  /\ id = U32(0, 416940032) => cout.code_u32 = U32(6, 114804439)
            /\ c.acr2 = c.acr0
            /\ c.acr3 = c.acr1

C32_Witness ==
    /\ FilterConverted
    /\ cin.filter.mask_type = "Extended"
    /\ cin.filter.can_id = U32(0, 416940032)
    /\ cout.code_u32 = U32(6, 114804439)

\* C33 as stated: with mask 0, Standard 0x601 gives the mask register
\* 0x001F001F and Extended 0x18DA0000 gives 0x00070007.
C33_MaskZeroExample ==
    FilterConverted /\ cin.filter.mask = U32(0, 0) =>
        /\ cin.filter.mask_type = "Standard" /\ cin.filter.can_id = U32(0, 1537) =>
              cout.mask_u32 = U32(0, 2031647)
        /\ cin.filter.mask_type = "Extended" /\ cin.filter.can_id = U32(0, 416940032) =>
              cout.mask_u32 = U32(0, 458759)

\* C33: the acceptance mask register of a single filter holds the complement
\* of the supplied mask in the positions the code register uses for the
\* identifier (Standard: mask bits [10:3] in byte0, [2:0] in bits 7..5 of
\* byte1; Extended: mask bits [28:21] in byte0, [20:16] in bits 7..3 of
\* byte1), ones in the low 5 (Standard) or 3 (Extended) bits of byte1, and
\* byte2 = byte0, byte3 = byte1.  A mask with every identifier bit set
\* (0x7FF, 0x1FFFFFFF) gives 0x001F001F for Standard and 0x00070007 for
\* Extended; the mask 0 gives 0xFFFFFFFF for both.
C33_MaskRegister ==
    FilterConverted =>
        LET mask == cin.filter.mask
            m == cout.mask
        IN  /\ m.amr0 \in 0..255 /\ m.amr1 \in 0..255
            /\ cin.filter.mask_type = "Standard" =>
                  /\ \A i \in 0..7 : BitOf(m.amr0, i) = 1 - Bit32(mask, i + 3)
                  /\ \A i \in 5..7 : BitOf(m.amr1, i) = 1 - Bit32(mask, i - 5)
                  /\ \A i \in 0..4 : BitOf(m.amr1, i) = 1
                  /\ mask = U32(0, 2047) => cout.mask_u32 = U32(0, 2031647)
            /\ cin.filter.mask_type = "Extended" =>
                  /\ \A i \in 0..7 : BitOf(m.amr0, i) = 1 - Bit32(mask, i + 21)
                  /\ \A i \in 3..7 : BitOf(m.amr1, i) = 1 - Bit32(mask, i + 13)
                  /\ \A i \in 0..2 : BitOf(m.amr1, i) = 1
                  /\ mask = U32(0, 536870911) => cout.mask_u32 = U32(0, 458759)
            /\ m.amr2 = m.amr0
            /\ m.amr3 = m.amr1
            /\ mask = U32(0, 0) => cout.mask_u32 = U32(7, 536870911)

C33_Witness ==
    /\ FilterConverted
    /\ cin.filter.mask_type = "Standard"
    /\ cin.filter.can_id = U32(0, 1537)
    /\ cin.filter.mask = U32(0, 2047)
    /\ cout.mask_u32 = U32(0, 2031647)

U32Converted == cin.kind = "u32" /\ cout.done

BytesPacked == cin.kind = "bytes" /\ cout.done

\* b0..b3 are bytes and the big-endian split of the u32 v
BigEndianSplit(v, b0, b1, b2, b3) ==
    /\ {b0, b1, b2, b3} \subseteq 0..255
    /\ \A i \in 0..7 :
          /\ BitOf(b0, i) = Bit32(v, 24 + i)
          /\ BitOf(b1, i) = Bit32(v, 16 + i)
          /\ BitOf(b2, i) = Bit32(v, 8 + i)
          /\ BitOf(b3, i) = Bit32(v, i)

\* the u32 r is b[1]*2^24 + b[2]*2^16 + b[3]*2^8 + b[4]
BigEndianValue(r, b) ==
    /\ r.hi \in 0..7
    /\ r.lo \in 0..536870911
    /\ (r.hi * 32) + (r.lo \div 16777216) = b[1]
    /\ r.lo % 16777216 = (b[2] * 65536) + (b[3] * 256) + b[4]

\* C34: a 32-bit value converted to an AcceptanceCodeRegister or an
\* AcceptanceMaskRegister and back, by conversion or by register(), is the
\* same value, and the four bytes of the register are its big-endian split;
\* new(b0, b1, b2, b3).register() is b0*2^24 + b1*2^16 + b2*2^8 + b3.
C34_RegisterRoundTrip ==
    /\ U32Converted =>
          /\ cout.code_u32 = cin.value
          /\ cout.code_register = cin.value
          /\ cout.mask_u32 = cin.value
          /\ cout.mask_register = cin.value
          /\ BigEndianSplit(cin.value, cout.code.acr0, cout.code.acr1,
                            cout.code.acr2, cout.code.acr3)
          /\ BigEndianSplit(cin.value, cout.mask.amr0, cout.mask.amr1,
                            cout.mask.amr2, cout.mask.amr3)
    /\ BytesPacked =>
          /\ BigEndianValue(cout.code_register, cin.bytes)
          /\ BigEndianValue(cout.mask_register, cin.bytes)

C34_Witness ==
    /\ U32Converted
    /\ cin.value = U32(5, 180079837)
    /\ cout.code.acr0 = 170
    /\ cout.code.acr3 = 221
    /\ cout.code_register = cin.value

(***************************************************************************)
(* Decode: signs inside the hex fields                                     *)
(***************************************************************************)
\* C35: decode returns no frame for a run in which a character of the
\* identifier, dlc, payload or timestamp field (the bytes between the
\* marker and the last byte of a decoded run) is not one of 0-9, A-F, a-f.
C35_NonHexNeverDecodes ==
    Decoded /\ cout.dec.ok =>
        \A i \in 2..(Len(cin.run) - 1) : IsHexDigitByte(cin.run[i])

(***************************************************************************)
(* recv(): what is decoded and what is returned                            *)
(***************************************************************************)
\* C36: recv() returns Ok(frame) exactly when the bytes it read end with
\* the first terminator, are at most 31 and decode to frame; the slice given
\* to decode is those bytes, terminator included; when they are at most 31
\* and do not decode, a run ended by BEL included, recv() returns ParseError
\* with the kind decode produced, and a ParseError never carries another.
C36_RecvDecodes ==
    [][Returns("recv") =>
          LET r == results'[Len(results')]
              got == SpanBytes(pos, pos')
              d == Decode(got)
          IN  /\ r.kind = "Ok" <=>
                    /\ Terminators(got) = {Len(got)}
                    /\ Len(got) <= 31
                    /\ d.ok
              /\ r.kind = "Ok" => r.frame = d.frame
              /\ Len(got) <= 31 =>
                    /\ buf' = got
                    /\ ~d.ok => r.kind = "ParseError" /\ r.err = d.err
              /\ r.kind = "ParseError" =>
                    /\ Len(got) <= 31
                    /\ r.err = d.err
                    /\ r.err \in ParseErrorKinds
              /\ r.kind \in {"Ok", "ParseError", "BufferError"}]_vars

C36_Witness ==
    /\ Len(results) >= 2
    /\ results[1].op = "recv"
    /\ results[1].kind = "ParseError"
    /\ results[1].to > results[1].from
    /\ stream[results[1].to] = Asc.BEL
    /\ results[2].op = "recv"
    /\ results[2].kind = "Ok"
    /\ stream[results[2].to] = Asc.CR

\* C37: recv() returns BufferError exactly when it read a 32nd byte after
\* storing 31 bytes with no CR or BEL among them; that byte is consumed and
\* is not stored; recv() never returns IndexingError and never stores more
\* than 31 bytes.
C37_BufferErrorOn32nd ==
    [][Returns("recv") =>
          LET r == results'[Len(results')]
              got == SpanBytes(pos, pos')
          IN  /\ r.kind = "BufferError" <=>
                    /\ Len(got) = 32
                    /\ Terminators(SubSeq(got, 1, 31)) = {}
              /\ r.kind = "BufferError" =>
                    /\ stream[pos'] = got[32]
                    /\ buf' = SubSeq(got, 1, 31)
              /\ Len(got) <= 32
              /\ Len(buf') <= 31
              /\ r.kind # "IndexingError"]_vars

C37_Witness ==
    /\ results # <<>>
    /\ LastResult.op = "recv"
    /\ LastResult.kind = "BufferError"
    /\ Len(buf) = 31
    /\ Len(SpanBytes(LastResult.from, LastResult.to)) = 32

(***************************************************************************)
(* serial_number() and read errors                                         *)
(***************************************************************************)
\* the serial number response N, four ASCII characters, CR is what arrives
\* next after position p, read errors aside
SerialResponseAhead(p) ==
    LET ahead == SpanBytes(p, Len(stream))
    IN  /\ Len(ahead) >= 6
        /\ ahead[1] = 78
        /\ \A i \in 2..5 : ahead[i] < 128 /\ ~IsTerminator(ahead[i])
        /\ ahead[6] = 13

\* C38: when the response N, four characters, CR arrives with read timeouts
\* before or between its bytes, serial_number() reads on to the terminator
\* and returns Ok with the four characters.
C38_SerialRetriesTimeouts ==
    [][/\ Returns("serial_number")
       /\ NewCalls[1].n = 2
       /\ SerialResponseAhead(pos)
       => /\ results'[Len(results')].kind = "Ok"
          /\ results'[Len(results')].serial = SubSeq(SpanBytes(pos, Len(stream)), 2, 5)
          /\ stream[pos'] = 13]_vars

(***************************************************************************)
(* send(): a received frame queued ahead of the echo                       *)
(***************************************************************************)
\* C39: a send() that reads its echo consumes exactly the bytes up to and
\* including the first CR or BEL after its write.  When those bytes are a
\* received frame queued ahead of the echo, send() returns
\* IncorrectResponse, no later operation reads them again (no later recv()
\* returns that frame), and the next operation starts right behind them: a
\* following recv() reads the echo left in the stream and fails to decode it.
C39_SendDiscardsQueuedFrame ==
    \A i \in DOMAIN results :
        EchoRead(results[i]) =>
            LET span == SpanBytes(results[i].from, results[i].to)
            IN  /\ Terminators(span) = {Len(span)}
                /\ stream[results[i].to] # Gap
                /\ Decode(span).ok =>
                      /\ results[i].kind = "IncorrectResponse"
                      /\ \A j \in DOMAIN results :
                            j > i => results[j].from >= results[i].to
                      /\ i < Len(results) =>
                            /\ results[i + 1].from = results[i].to
                            /\ /\ results[i + 1].op = "recv"
                               /\ results[i].to + 2 <= Len(stream)
                               /\ SpanBytes(results[i].to, results[i].to + 2) \in {EchoStd, EchoExt}
                               => /\ results[i + 1].to = results[i].to + 2
                                  /\ results[i + 1].kind = "ParseError"

C39_Witness ==
    /\ Len(results) = 3
    /\ EchoRead(results[1])
    /\ SpanBytes(results[1].from, results[1].to) = FrameA
    /\ results[1].kind = "IncorrectResponse"
    /\ results[2].op = "recv"
    /\ SpanBytes(results[2].from, results[2].to) = EchoStd
    /\ results[2].kind = "ParseError"
    /\ results[3].op = "recv"
    /\ results[3].kind = "Ok"
    /\ SpanBytes(results[3].from, results[3].to) = FrameB

(***************************************************************************)
(* send(): the length computed in advance                                  *)
(***************************************************************************)
\* C40: for every frame with dlc 0..8 the length send() computes in advance,
\* 6 + 2*dlc for Standard and 11 + 2*dlc for Extended, is the number of
\* bytes formatted, at most 27 and below 256, and the encoding ends neither
\* in FormatError nor in SizeMismatchError.
C40_LengthArithmetic ==
    cout.done /\ cin.kind = "frame" /\ cin.req.dlc <= 8 =>
        LET f == BuildFrame(cin.req)
            computed == (IF cin.req.format = "Standard" THEN 6 ELSE 11)
                        + (2 * cin.req.dlc)
        IN  /\ cout.enc.kind = "Ok"
            /\ EncodedLen(f) = computed
            /\ Len(cout.enc.bytes) = computed
            /\ computed <= 27
            /\ computed < 256
            /\ cout.enc.bytes[computed] = 13
            /\ \A i \in 1..(computed - 1) : ~IsTerminator(cout.enc.bytes[i])

C40_Witness ==
    /\ cout.done
    /\ cin.kind = "frame"
    /\ cin.req.format = "Extended"
    /\ cin.req.dlc = 8
    /\ cout.enc.kind = "Ok"
    /\ Len(cout.enc.bytes) = 27

====
